---- MODULE Spec2Model ----
(***************************************************************************)
(* Order / cart / stock flow of the powermart backend, with the email OTP  *)
(* verification and the category tree.                                     *)
(*                                                                         *)
(* The database tables are the state.  Every service function is a         *)
(* request that runs as a sequence of database round-trips (its awaits);   *)
(* one action of the model is one round-trip together with the code that   *)
(* runs up to the next await.  Requests occupy slots of `req`; a           *)
(* specification either runs them one at a time or lets them interleave.   *)
(***************************************************************************)
EXTENDS Integers, Sequences, FiniteSets, TLC

VARIABLES
    products,   \* table products:         id -> row
    variants,   \* table product_variants: id -> row
    orders,     \* table orders (with their order_items), in creation order
    carts,      \* table carts: set of rows
    cartItems,  \* table cart_items: set of rows
    req,        \* the requests in flight: slot -> locals of the service call
    last,       \* history: the request that was answered last
    users,      \* table users: id -> row
    emailOTPs,  \* table email_otps: set of rows
    invalidAnswers, \* history: OTP id -> the 'Invalid verification code' answers given
    categories  \* table categories: id -> row

vars == <<products, variants, orders, carts, cartItems, req, last,
          users, emailOTPs, invalidAnswers, categories>>

db == <<products, variants, orders, carts, cartItems>>

\* the tables of the verification service, with their history
auth == <<users, emailOTPs, invalidAnswers>>

----------------------------------------------------------------------------
(* Bounds of the model *)

MaxStock == 2       \* initial stock of every product and variant
MaxQty == 2         \* a requested quantity is in 1..MaxQty
MaxOrders == 1      \* no order creation is started once this many orders exist
NumReq == 2         \* request slots
StockCap == 3       \* no cancellation is started with a stock above this
MaxOtps == 1        \* email OTPs issued
MaxCategories == 3  \* categories, the two initial ones included
MaxAnswers == 6     \* no verification is started once an OTP got this many refusals

\* otp.util.ts
MAX_OTP_ATTEMPTS == 5

----------------------------------------------------------------------------
(* Identifiers and enums *)

Null == "null"

UserIds == {"u1", "u2"}
ProductIds == {"p1", "p2"}
VariantIds == {"v1"}
AddressIds == {"a1", "a2"}

OrderStatuses == {"PENDING", "CONFIRMED", "SHIPPED", "DELIVERED", "CANCELLED", "RETURNED"}
PaymentStatuses == {"PENDING", "PAID", "FAILED", "REFUNDED"}
PaymentMethods == {"COD", "CARD"}

\* order_addresses rows are never mutated: the owner of each address
AddressOwner == [a \in AddressIds |-> IF a = "a1" THEN "u1" ELSE "u2"]

NoProduct == [id |-> Null, price |-> 0, discount |-> 0, deliveryCharge |-> 0,
              stock |-> 0, status |-> Null]
NoVariant == [id |-> Null, productId |-> Null, priceDiff |-> 0, stock |-> 0]

Slots == 1..NumReq

OK == "ok"
ErrAddress == "Shipping address not found or does not belong to this user"
ErrProductNotFound == "Product with ID not found"
ErrProductStock == "Insufficient stock for product"
ErrVariantNotFound == "Variant with ID not found"
ErrVariantStock == "Insufficient stock for variant"
ErrOrderNotFound == "Order not found"
ErrNotOwner == "Unauthorized: You do not own this order"
ErrAlreadyCancelled == "Order is already cancelled"
ErrShipped == "Cannot cancel an order that has been shipped or delivered"

----------------------------------------------------------------------------
(* Generic helpers *)

RECURSIVE SeqSum(_)
SeqSum(s) == IF s = <<>> THEN 0 ELSE Head(s) + SeqSum(Tail(s))

Range(s) == {s[i] : i \in DOMAIN s}

\* prisma.product.findUnique / prisma.productVariant.findUnique
FindProduct(id) == IF id \in DOMAIN products THEN products[id] ELSE NoProduct
FindVariant(id) == IF id \in DOMAIN variants THEN variants[id] ELSE NoVariant

\* prisma.order.findUnique({ where: { id } }): 0 when there is no such row
OrderIds == DOMAIN orders

\* stock: { decrement: n } / { increment: n } on one products row
AdjustStock(table, id, delta) ==
    [table EXCEPT ![id] = [@ EXCEPT !.stock = @ + delta]]

----------------------------------------------------------------------------
(* Requests *)

Idle == [op |-> "none", pc |-> "idle", userId |-> Null, arg |-> <<>>,
         loc |-> <<>>, err |-> OK, pre |-> <<>>]

NoLast == [op |-> "none", userId |-> Null, err |-> OK, orderId |-> 0,
           arg |-> <<>>, stock |-> <<>>, vstock |-> <<>>, qty |-> 0]

AllIdle == \A r \in Slots : req[r].pc = "idle"

\* the specifications start no order creation once n orders exist
OrdersBelow(n) == Len(orders) < n

\* requests take the lowest free slot (slots are interchangeable)
FreeSlot(r) ==
    /\ req[r].pc = "idle"
    /\ \A s \in Slots : s < r => req[s].pc # "idle"

\* what a request can later be compared against: the rows as they were
\* when the request entered the service
Snapshot ==
    [stock |-> [p \in DOMAIN products |-> products[p].stock],
     vstock |-> [v \in DOMAIN variants |-> variants[v].stock],
     orders |-> [o \in DOMAIN orders |->
                    [status |-> orders[o].status,
                     paymentStatus |-> orders[o].paymentStatus,
                     paymentMethod |-> orders[o].paymentMethod]],
     carts |-> carts,
     cartItems |-> cartItems]

Begin(r, op, userId, arg, pc, loc) ==
    req' = [req EXCEPT ![r] = [op |-> op, pc |-> pc, userId |-> userId,
                               arg |-> arg, loc |-> loc, err |-> OK,
                               pre |-> Snapshot]]

At(r, op, pc) == req[r].op = op /\ req[r].pc = pc

Goto(r, pc, loc) == req' = [req EXCEPT ![r].pc = pc, ![r].loc = loc]

\* throw new Error(msg): the service call ends, the controller answers 4xx
Throw(r, msg) == req' = [req EXCEPT ![r].pc = "done", ![r].err = msg]

\* return value: the service call ends normally
Return(r, loc) == req' = [req EXCEPT ![r].pc = "done", ![r].loc = loc]

\* the controller sends the response; the slot is free again
Reply(r) ==
    /\ req[r].pc = "done"
    /\ req' = [req EXCEPT ![r] = Idle]
    /\ UNCHANGED <<db, last, auth, categories>>

\* the order a finished request created or addressed (0: none)
OrderIdOf(q) ==
    IF q.op \in {"createOrder", "checkoutFromCart"}
    THEN (IF q.err = OK THEN q.loc.orderId ELSE 0)
    ELSE IF q.op = "cancelOrder" THEN q.arg.orderId ELSE 0

RECURSIVE SumQuantity(_)
SumQuantity(rows) ==
    IF rows = {} THEN 0
    ELSE LET x == CHOOSE y \in rows : TRUE IN x.quantity + SumQuantity(rows \ {x})

\* the quantity the cart of an answered addToCart held for the request's
\* (productId, variantId) when the request entered the service
QuantityBefore(q) ==
    SumQuantity({it \in q.pre.cartItems : /\ it.cartId = q.loc.cart.id
                                          /\ it.productId = q.arg.productId
                                          /\ it.variantId = q.arg.variantId})

\* the same, and the answered request is remembered in `last`
ReplyRecorded(r) ==
    /\ req[r].pc = "done"
    /\ LET q == req[r]
           made == q.err = OK /\ q.op \in {"createOrder", "checkoutFromCart"}
           added == q.err = OK /\ q.op = "addToCart"
       IN  last' = [op |-> q.op, userId |-> q.userId, err |-> q.err,
                    orderId |-> OrderIdOf(q),
                    arg |-> IF added THEN q.arg ELSE <<>>,
                    stock |-> IF made THEN q.pre.stock ELSE <<>>,
                    vstock |-> IF made THEN q.pre.vstock ELSE <<>>,
                    qty |-> IF added THEN QuantityBefore(q) ELSE 0]
    /\ req' = [req EXCEPT ![r] = Idle]
    /\ UNCHANGED <<db, auth, categories>>

----------------------------------------------------------------------------
(* order.service.ts: pricing of createOrder *)

\* a validated line: the product and variant rows read, and the quantity
UnitPrice(d) == d.product.price + (IF d.variant.id = Null THEN 0 ELSE d.variant.priceDiff)

ItemSubtotal(d) == UnitPrice(d) * d.quantity

\* a discount taken as an amount per unit, not as a percentage
LineDiscountFlat(d) == d.product.discount * d.quantity

\* (discount / 100) * itemSubtotal; every price of the model is a multiple
\* of 100 or the discount is 0, so the division is exact
LineDiscount(d) ==
    IF d.product.discount # 0 THEN (d.product.discount * ItemSubtotal(d)) \div 100 ELSE 0

DeliveryLine(d) == d.product.deliveryCharge * d.quantity

OrderItemData(d) ==
    [productId |-> d.product.id,
     variantId |-> d.variant.id,
     quantity |-> d.quantity,
     unitPrice |-> UnitPrice(d),
     deliveryCharge |-> d.product.deliveryCharge,
     totalPrice |-> ItemSubtotal(d) - LineDiscount(d) + DeliveryLine(d)]

ShippingFee == 0

\* a total that forgets the discount
TotalAmountNoDiscount(subtotalAmount, discountAmount, deliveryTotal, shippingFee) ==
    subtotalAmount + deliveryTotal + shippingFee

TotalAmount(subtotalAmount, discountAmount, deliveryTotal, shippingFee) ==
    subtotalAmount - discountAmount + deliveryTotal + shippingFee

\* the row prisma.order.create writes for createOrder
NewOrder(userId, data, details) ==
    LET subtotalAmount == SeqSum([i \in DOMAIN details |-> ItemSubtotal(details[i])])
        discountAmount == SeqSum([i \in DOMAIN details |-> LineDiscount(details[i])])
        deliveryTotal == SeqSum([i \in DOMAIN details |-> DeliveryLine(details[i])])
    IN  [id |-> Len(orders) + 1,
         userId |-> userId,
         status |-> "PENDING",
         paymentStatus |-> IF data.paymentMethod # Null THEN "PENDING" ELSE Null,
         paymentMethod |-> data.paymentMethod,
         subtotalAmount |-> subtotalAmount,
         discountAmount |-> discountAmount,
         shippingFee |-> ShippingFee,
         totalAmount |-> TotalAmount(subtotalAmount, discountAmount, deliveryTotal, ShippingFee),
         shippingAddressId |-> data.shippingAddressId,
         items |-> [i \in DOMAIN details |-> OrderItemData(details[i])]]

----------------------------------------------------------------------------
(* order.service.ts: createOrder *)

Item(p, v, q) == [productId |-> p, variantId |-> v, quantity |-> q]

\* the item lists requests are made with: every single line, a list naming
\* the same product twice and a list over two products
ItemLists ==
    {<<Item(p, v, q)>> : p \in ProductIds, v \in VariantIds \cup {Null}, q \in 1..MaxQty}
    \cup {<<Item("p1", Null, 1), Item("p1", Null, 1)>>,
          <<Item("p1", Null, 1), Item("p2", Null, 1)>>}

CreateOrderRequests ==
    [items : ItemLists, shippingAddressId : AddressIds, paymentMethod : {Null, "COD"}]

StartCreateOrder(r, userId, data) ==
    /\ FreeSlot(r)
    /\ Begin(r, "createOrder", userId, data, "address", <<>>)
    /\ UNCHANGED <<db, last, auth, categories>>

\* prisma.orderAddress.findFirst({ where: { id, userId } })
CreateOrderAddress(r) ==
    /\ At(r, "createOrder", "address")
    /\ IF AddressOwner[req[r].arg.shippingAddressId] # req[r].userId
       THEN Throw(r, ErrAddress)
       ELSE Goto(r, "validate",
                 [pend |-> DOMAIN req[r].arg.items,
                  vpend |-> {},
                  details |-> [i \in DOMAIN req[r].arg.items |->
                                  [product |-> NoProduct, variant |-> NoVariant,
                                   quantity |-> req[r].arg.items[i].quantity]]])
    /\ UNCHANGED <<db, last, auth, categories>>

\* what follows the last read of Promise.all(data.items.map(...))
AfterRead(r, loc) ==
    IF loc.pend = {} /\ loc.vpend = {} THEN Goto(r, "create", loc) ELSE Goto(r, "validate", loc)

\* one item's prisma.product.findUnique and the checks on it
CreateOrderReadProduct(r, i) ==
    /\ At(r, "createOrder", "validate")
    /\ i \in req[r].loc.pend
    /\ LET item == req[r].arg.items[i]
           product == FindProduct(item.productId)
           loc == req[r].loc
       IN  IF product.id = Null THEN Throw(r, ErrProductNotFound)
           ELSE IF product.stock < item.quantity THEN Throw(r, ErrProductStock)
           ELSE AfterRead(r, [loc EXCEPT !.pend = @ \ {i},
                                         !.vpend = IF item.variantId # Null THEN @ \cup {i} ELSE @,
                                         !.details[i].product = product])
    /\ UNCHANGED <<db, last, auth, categories>>

\* one item's prisma.productVariant.findUnique and the checks on it
CreateOrderReadVariant(r, i) ==
    /\ At(r, "createOrder", "validate")
    /\ i \in req[r].loc.vpend
    /\ LET item == req[r].arg.items[i]
           variant == FindVariant(item.variantId)
           loc == req[r].loc
       IN  IF variant.id = Null THEN Throw(r, ErrVariantNotFound)
           ELSE IF variant.stock < item.quantity THEN Throw(r, ErrVariantStock)
           ELSE AfterRead(r, [loc EXCEPT !.vpend = @ \ {i},
                                         !.details[i].variant = variant])
    /\ UNCHANGED <<db, last, auth, categories>>

\* prisma.order.create of the order and its items
CreateOrderPersist(r) ==
    /\ At(r, "createOrder", "create")
    /\ LET order == NewOrder(req[r].userId, req[r].arg, req[r].loc.details)
       IN  /\ orders' = Append(orders, order)
           /\ Goto(r, "decrement",
                   [details |-> req[r].loc.details,
                    orderId |-> order.id,
                    dpend |-> DOMAIN req[r].loc.details])
    /\ UNCHANGED <<products, variants, carts, cartItems, last, auth, categories>>

\* one prisma.product.update({ stock: { decrement } }) of the Promise.all
CreateOrderDecrement(r, i) ==
    /\ At(r, "createOrder", "decrement")
    /\ i \in req[r].loc.dpend
    /\ LET d == req[r].loc.details[i]
           loc == [req[r].loc EXCEPT !.dpend = @ \ {i}]
       IN  /\ products' = AdjustStock(products, d.product.id, 0 - d.quantity)
           /\ IF loc.dpend = {} THEN Return(r, loc) ELSE Goto(r, "decrement", loc)
    /\ UNCHANGED <<variants, orders, carts, cartItems, last, auth, categories>>

\* the positions of a line in an item list
LineIdx == UNION {DOMAIN l : l \in ItemLists}

CreateOrderStep(r) ==
    \/ CreateOrderAddress(r)
    \/ \E i \in LineIdx : CreateOrderReadProduct(r, i)
    \/ \E i \in LineIdx : CreateOrderReadVariant(r, i)
    \/ CreateOrderPersist(r)
    \/ \E i \in LineIdx : CreateOrderDecrement(r, i)



----------------------------------------------------------------------------
(* order.service.ts: getOrderById *)

StartGetOrderById(r, userId, orderId) ==
    /\ FreeSlot(r)
    /\ Begin(r, "getOrderById", userId, [orderId |-> orderId], "find", <<>>)
    /\ UNCHANGED <<db, last, auth, categories>>

\* prisma.order.findUnique, the ownership check and the mapped response
GetOrderByIdFind(r) ==
    /\ At(r, "getOrderById", "find")
    /\ LET orderId == req[r].arg.orderId
       IN  IF orderId \notin OrderIds THEN Throw(r, ErrOrderNotFound)
           ELSE IF orders[orderId].userId # req[r].userId THEN Throw(r, ErrNotOwner)
           ELSE Return(r, [order |-> orders[orderId]])
    /\ UNCHANGED <<db, last, auth, categories>>

----------------------------------------------------------------------------
(* order.service.ts: updateOrderStatus *)

StartUpdateOrderStatus(r, userId, orderId, status) ==
    /\ FreeSlot(r)
    /\ Begin(r, "updateOrderStatus", userId, [orderId |-> orderId, status |-> status],
             "find", <<>>)
    /\ UNCHANGED <<db, last, auth, categories>>

\* prisma.order.findUnique and the ownership check
UpdateOrderStatusFind(r) ==
    /\ At(r, "updateOrderStatus", "find")
    /\ LET orderId == req[r].arg.orderId
       IN  IF orderId \notin OrderIds THEN Throw(r, ErrOrderNotFound)
           ELSE IF orders[orderId].userId # req[r].userId THEN Throw(r, ErrNotOwner)
           ELSE Goto(r, "update", <<>>)
    /\ UNCHANGED <<db, last, auth, categories>>

\* prisma.order.update({ data: { status: data.status } })
UpdateOrderStatusWrite(r) ==
    /\ At(r, "updateOrderStatus", "update")
    /\ orders' = [orders EXCEPT ![req[r].arg.orderId].status = req[r].arg.status]
    /\ Return(r, <<>>)
    /\ UNCHANGED <<products, variants, carts, cartItems, last, auth, categories>>

UpdateOrderStatusStep(r) ==
    \/ UpdateOrderStatusFind(r)
    \/ UpdateOrderStatusWrite(r)

----------------------------------------------------------------------------
(* order.service.ts: updatePaymentStatus *)

\* the bodies requests are made with: with and without a payment method
PaymentUpdates ==
    {[paymentStatus |-> "PAID", paymentMethod |-> Null],
     [paymentStatus |-> "PAID", paymentMethod |-> "CARD"]}

\* an updatePaymentStatus without the ownership check
UpdatePaymentStatusFindAnyUser(r) ==
    /\ At(r, "updatePaymentStatus", "find")
    /\ IF req[r].arg.orderId \notin OrderIds THEN Throw(r, ErrOrderNotFound)
       ELSE Goto(r, "update", <<>>)
    /\ UNCHANGED <<db, last, auth, categories>>

StartUpdatePaymentStatus(r, userId, orderId, data) ==
    /\ FreeSlot(r)
    /\ Begin(r, "updatePaymentStatus", userId,
             [orderId |-> orderId, paymentStatus |-> data.paymentStatus,
              paymentMethod |-> data.paymentMethod], "find", <<>>)
    /\ UNCHANGED <<db, last, auth, categories>>

UpdatePaymentStatusFind(r) ==
    /\ At(r, "updatePaymentStatus", "find")
    /\ LET orderId == req[r].arg.orderId
       IN  IF orderId \notin OrderIds THEN Throw(r, ErrOrderNotFound)
           ELSE IF orders[orderId].userId # req[r].userId THEN Throw(r, ErrNotOwner)
           ELSE Goto(r, "update", <<>>)
    /\ UNCHANGED <<db, last, auth, categories>>

\* updateData: paymentStatus always, paymentMethod only when it is given
UpdatePaymentStatusWrite(r) ==
    /\ At(r, "updatePaymentStatus", "update")
    /\ orders' = [orders EXCEPT ![req[r].arg.orderId] =
                     [@ EXCEPT !.paymentStatus = req[r].arg.paymentStatus,
                               !.paymentMethod = IF req[r].arg.paymentMethod # Null
                                                 THEN req[r].arg.paymentMethod ELSE @]]
    /\ Return(r, <<>>)
    /\ UNCHANGED <<products, variants, carts, cartItems, last, auth, categories>>

UpdatePaymentStatusStep(r) ==
    \/ UpdatePaymentStatusFind(r)
    \/ UpdatePaymentStatusWrite(r)

----------------------------------------------------------------------------
(* order.service.ts: cancelOrder *)

\* a refusal that lets a DELIVERED order through
CancelRefusalShippedOnly(status) ==
    IF status = "CANCELLED" THEN ErrAlreadyCancelled
    ELSE IF status = "SHIPPED" THEN ErrShipped
    ELSE OK

\* the statuses cancelOrder refuses
CancelRefusal(status) ==
    IF status = "CANCELLED" THEN ErrAlreadyCancelled
    ELSE IF status \in {"SHIPPED", "DELIVERED"} THEN ErrShipped
    ELSE OK

StartCancelOrder(r, userId, orderId) ==
    /\ FreeSlot(r)
    /\ \A p \in DOMAIN products : products[p].stock <= StockCap
    /\ Begin(r, "cancelOrder", userId, [orderId |-> orderId], "find", <<>>)
    /\ UNCHANGED <<db, last, auth, categories>>

\* prisma.order.findUnique({ include: { items } }) and the checks on it
CancelOrderFind(r) ==
    /\ At(r, "cancelOrder", "find")
    /\ LET orderId == req[r].arg.orderId
       IN  IF orderId \notin OrderIds THEN Throw(r, ErrOrderNotFound)
           ELSE IF orders[orderId].userId # req[r].userId THEN Throw(r, ErrNotOwner)
           ELSE IF CancelRefusal(orders[orderId].status) # OK
                THEN Throw(r, CancelRefusal(orders[orderId].status))
           ELSE Goto(r, "restore", [items |-> orders[orderId].items,
                                    rpend |-> DOMAIN orders[orderId].items])
    /\ UNCHANGED <<db, last, auth, categories>>

\* a restore that gives back one unit per line, whatever its quantity
CancelOrderRestoreOne(r, i) ==
    /\ At(r, "cancelOrder", "restore")
    /\ i \in req[r].loc.rpend
    /\ LET item == req[r].loc.items[i]
           loc == [req[r].loc EXCEPT !.rpend = @ \ {i}]
       IN  /\ products' = AdjustStock(products, item.productId, 1)
           /\ Goto(r, IF loc.rpend = {} THEN "update" ELSE "restore", loc)
    /\ UNCHANGED <<variants, orders, carts, cartItems, last, auth, categories>>

\* one prisma.product.update({ stock: { increment } }) of the Promise.all
CancelOrderRestore(r, i) ==
    /\ At(r, "cancelOrder", "restore")
    /\ i \in req[r].loc.rpend
    /\ LET item == req[r].loc.items[i]
           loc == [req[r].loc EXCEPT !.rpend = @ \ {i}]
       IN  /\ products' = AdjustStock(products, item.productId, item.quantity)
           /\ Goto(r, IF loc.rpend = {} THEN "update" ELSE "restore", loc)
    /\ UNCHANGED <<variants, orders, carts, cartItems, last, auth, categories>>

\* prisma.order.update({ data: { status: 'CANCELLED' } })
CancelOrderWrite(r) ==
    /\ At(r, "cancelOrder", "update")
    /\ orders' = [orders EXCEPT ![req[r].arg.orderId].status = "CANCELLED"]
    /\ Return(r, req[r].loc)
    /\ UNCHANGED <<products, variants, carts, cartItems, last, auth, categories>>

CancelOrderStep(r) ==
    \/ CancelOrderFind(r)
    \/ \E i \in LineIdx : CancelOrderRestore(r, i)
    \/ CancelOrderWrite(r)

----------------------------------------------------------------------------
(* cart service (verification.service.ts, from line 154): getOrCreateCart  *)

ErrCartProduct == "Product not found"
ErrNotAvailable == "Product is not available"
ErrCartVariant == "Variant not found"
ErrVariantMismatch == "Variant does not belong to this product"
ErrInsufficient == "Insufficient stock"
ErrCannotAddMore == "Cannot add more"
ErrUnique == "Unique constraint failed"
ErrRecordNotFound == "Record to update not found"
ErrValidation == "Cart validation failed"
ErrEmptyCart == "Cart is empty"

NoCart == [id |-> 0, userId |-> Null]

\* prisma.cart.findUnique({ where: { userId } })
FindCart(userId) ==
    IF \E c \in carts : c.userId = userId
    THEN CHOOSE c \in carts : c.userId = userId
    ELSE NoCart

RowsOfCart(cartId) == {it \in cartItems : it.cartId = cartId}

MaxId(rows) == IF rows = {} THEN 0 ELSE CHOOSE n \in {x.id : x \in rows} : \A x \in rows : x.id <= n

\* rows are created with increasing ids: the id order is the createdAt order
RECURSIVE NewestFirst(_)
NewestFirst(rows) ==
    IF rows = {} THEN <<>>
    ELSE LET newest == CHOOSE x \in rows : x.id = MaxId(rows)
         IN  <<newest>> \o NewestFirst(rows \ {newest})

RECURSIVE OldestFirst(_)
OldestFirst(rows) ==
    IF rows = {} THEN <<>>
    ELSE LET newest == CHOOSE x \in rows : x.id = MaxId(rows)
         IN  Append(OldestFirst(rows \ {newest}), newest)

\* the cart with its items as include: { items: { orderBy: { createdAt: 'desc' } } } loads it
LoadCart(cart) == [id |-> cart.id, userId |-> cart.userId, items |-> NewestFirst(RowsOfCart(cart.id))]

\* validateCartForCheckout: what follows the check of one cart line, and
\* what checkoutFromCart does with the finished validation
ValidateNext(r, loc) ==
    IF loc.vidx <= Len(loc.cart.items) THEN Goto(r, "v.product", loc)
    ELSE IF req[r].op = "validateCartForCheckout"
    THEN Return(r, [loc EXCEPT !.valid = (loc.errors = <<>>)])
    ELSE IF loc.errors # <<>> THEN Throw(r, ErrValidation)
    ELSE IF Len(loc.cart.items) = 0 THEN Throw(r, ErrEmptyCart)
    ELSE Goto(r, "address", loc)

\* the code that runs when getOrCreateCart has returned the cart
CartLoaded(r, loc) ==
    IF req[r].op \in {"checkoutFromCart", "validateCartForCheckout"}
    THEN ValidateNext(r, loc)
    ELSE Goto(r, loc.ret, loc)

\* getOrCreateCart: prisma.cart.findUnique with the items
GetOrCreateCartFind(r) ==
    /\ req[r].pc = "cart.find"
    /\ LET cart == FindCart(req[r].userId)
       IN  IF cart.id = 0 THEN Goto(r, "cart.create", req[r].loc)
           ELSE CartLoaded(r, [req[r].loc EXCEPT !.cart = LoadCart(cart)])
    /\ UNCHANGED <<db, last, auth, categories>>

\* a prisma.cart.create on a table without the unique index
GetOrCreateCartCreateNoIndex(r) ==
    /\ req[r].pc = "cart.create"
    /\ LET cart == [id |-> MaxId(carts) + 1, userId |-> req[r].userId]
       IN  /\ carts' = carts \cup {cart}
           /\ CartLoaded(r, [req[r].loc EXCEPT !.cart = LoadCart(cart)])
    /\ UNCHANGED <<products, variants, orders, cartItems, last, auth, categories>>

\* getOrCreateCart: prisma.cart.create; carts_userId_key is a unique index
GetOrCreateCartCreate(r) ==
    /\ req[r].pc = "cart.create"
    /\ IF FindCart(req[r].userId).id # 0
       THEN Throw(r, ErrUnique) /\ UNCHANGED carts
       ELSE LET cart == [id |-> MaxId(carts) + 1, userId |-> req[r].userId]
            IN  /\ carts' = carts \cup {cart}
                /\ CartLoaded(r, [req[r].loc EXCEPT !.cart = LoadCart(cart)])
    /\ UNCHANGED <<products, variants, orders, cartItems, last, auth, categories>>

\* mapCartToResponse
CartResponse(cart) ==
    LET items == [i \in DOMAIN cart.items |->
                    [id |-> cart.items[i].id,
                     productId |-> cart.items[i].productId,
                     variantId |-> cart.items[i].variantId,
                     quantity |-> cart.items[i].quantity,
                     priceSnapshot |-> cart.items[i].priceSnapshot,
                     deliveryChargeSnapshot |-> cart.items[i].deliveryChargeSnapshot,
                     itemTotal |-> cart.items[i].priceSnapshot * cart.items[i].quantity,
                     deliveryTotal |-> cart.items[i].deliveryChargeSnapshot * cart.items[i].quantity]]
        subtotal == SeqSum([i \in DOMAIN items |-> items[i].itemTotal])
        totalDelivery == SeqSum([i \in DOMAIN items |-> items[i].deliveryTotal])
    IN  [id |-> cart.id, userId |-> cart.userId, items |-> items, itemCount |-> Len(items),
         subtotal |-> subtotal, totalDelivery |-> totalDelivery,
         total |-> subtotal + totalDelivery]

\* getCart: return mapCartToResponse(cart)
GetCartRespond(r) ==
    /\ req[r].pc = "respond"
    /\ Return(r, [req[r].loc EXCEPT !.response = CartResponse(req[r].loc.cart)])
    /\ UNCHANGED <<db, last, auth, categories>>

NoResponse == [id |-> 0, userId |-> Null, items |-> <<>>, itemCount |-> 0,
               subtotal |-> 0, totalDelivery |-> 0, total |-> 0]
NoLoadedCart == [id |-> 0, userId |-> Null, items |-> <<>>]

StartGetCart(r, userId) ==
    /\ FreeSlot(r)
    /\ Begin(r, "getCart", userId, <<>>, "cart.find",
             [cart |-> NoLoadedCart, ret |-> "respond", response |-> NoResponse])
    /\ UNCHANGED <<db, last, auth, categories>>

GetCartStep(r) ==
    \/ GetOrCreateCartFind(r)
    \/ GetOrCreateCartCreate(r)
    \/ GetCartRespond(r)

----------------------------------------------------------------------------
(* cart service: addToCart *)

NoCartItem == [id |-> 0, cartId |-> 0, productId |-> Null, variantId |-> Null,
               quantity |-> 0, priceSnapshot |-> 0, deliveryChargeSnapshot |-> 0]

\* basePrice + variantPriceDiff, basePrice = product.price - (product.discount ?? 0)
PriceSnapshot(product, variant) ==
    (product.price - product.discount) + (IF variant.id = Null THEN 0 ELSE variant.priceDiff)

AvailableStock(product, variant) == IF variant.id # Null THEN variant.stock ELSE product.stock

StartAddToCart(r, userId, data) ==
    /\ FreeSlot(r)
    /\ Begin(r, "addToCart", userId, data, "product",
             [product |-> NoProduct, variant |-> NoVariant, cart |-> NoLoadedCart,
              existing |-> NoCartItem, ret |-> "existing", response |-> NoResponse])
    /\ UNCHANGED <<db, last, auth, categories>>

\* an addToCart that goes on to getOrCreateCart without the stock check
AddToCartNoStockCheck(r, loc) == Goto(r, "cart.find", loc)

\* the stock check, then getOrCreateCart
AddToCartCheckStock(r, loc) ==
    IF req[r].arg.quantity > AvailableStock(loc.product, loc.variant)
    THEN Throw(r, ErrInsufficient)
    ELSE Goto(r, "cart.find", loc)

\* prisma.product.findUnique and the checks on the product
AddToCartReadProduct(r) ==
    /\ At(r, "addToCart", "product")
    /\ LET product == FindProduct(req[r].arg.productId)
           loc == [req[r].loc EXCEPT !.product = product]
       IN  IF product.id = Null THEN Throw(r, ErrCartProduct)
           ELSE IF product.status # "ACTIVE" THEN Throw(r, ErrNotAvailable)
           ELSE IF req[r].arg.variantId # Null THEN Goto(r, "variant", loc)
           ELSE AddToCartCheckStock(r, loc)
    /\ UNCHANGED <<db, last, auth, categories>>

\* prisma.productVariant.findUnique and the checks on the variant
AddToCartReadVariant(r) ==
    /\ At(r, "addToCart", "variant")
    /\ LET variant == FindVariant(req[r].arg.variantId)
           loc == [req[r].loc EXCEPT !.variant = variant]
       IN  IF variant.id = Null THEN Throw(r, ErrCartVariant)
           ELSE IF variant.productId # req[r].arg.productId THEN Throw(r, ErrVariantMismatch)
           ELSE AddToCartCheckStock(r, loc)
    /\ UNCHANGED <<db, last, auth, categories>>

\* the rows prisma.cartItem.findFirst({ where: { cartId, productId, variantId } }) may return
MatchingItems(cartId, productId, variantId) ==
    {it \in cartItems : it.cartId = cartId /\ it.productId = productId /\ it.variantId = variantId}

\* an addToCart that never looks for the existing row
AddToCartAlwaysCreate(r) ==
    /\ At(r, "addToCart", "existing")
    /\ Goto(r, "create", req[r].loc)
    /\ UNCHANGED <<db, last, auth, categories>>

\* findFirst of the existing row (any matching row, when there are several)
\* and the check of the new quantity
AddToCartFindExisting(r) ==
    /\ At(r, "addToCart", "existing")
    /\ LET loc == req[r].loc
           found == MatchingItems(loc.cart.id, req[r].arg.productId, req[r].arg.variantId)
       IN  IF found = {} THEN Goto(r, "create", loc)
           ELSE \E existing \in found :
                  IF existing.quantity + req[r].arg.quantity > AvailableStock(loc.product, loc.variant)
                  THEN Throw(r, ErrCannotAddMore)
                  ELSE Goto(r, "update", [loc EXCEPT !.existing = existing])
    /\ UNCHANGED <<db, last, auth, categories>>

\* prisma.cartItem.update of the existing row: the quantity computed from
\* the row as it was read, and fresh snapshots
AddToCartUpdate(r) ==
    /\ At(r, "addToCart", "update")
    /\ LET loc == req[r].loc
           existing == loc.existing
       IN  IF ~ \E it \in cartItems : it.id = existing.id
           THEN Throw(r, ErrRecordNotFound) /\ UNCHANGED cartItems
           ELSE /\ cartItems' =
                     {IF it.id = existing.id
                      THEN [it EXCEPT !.quantity = existing.quantity + req[r].arg.quantity,
                                      !.priceSnapshot = PriceSnapshot(loc.product, loc.variant),
                                      !.deliveryChargeSnapshot = loc.product.deliveryCharge]
                      ELSE it : it \in cartItems}
                /\ Goto(r, "cart.find", [loc EXCEPT !.ret = "respond"])
    /\ UNCHANGED <<products, variants, orders, carts, last, auth, categories>>

\* prisma.cartItem.create; cart_items_cartId_productId_variantId_key is a
\* unique index, in which rows with a NULL variantId never collide
AddToCartCreate(r) ==
    /\ At(r, "addToCart", "create")
    /\ LET loc == req[r].loc
           data == req[r].arg
       IN  IF data.variantId # Null /\ MatchingItems(loc.cart.id, data.productId, data.variantId) # {}
           THEN Throw(r, ErrUnique) /\ UNCHANGED cartItems
           ELSE /\ cartItems' = cartItems \cup
                     {[id |-> MaxId(cartItems) + 1,
                       cartId |-> loc.cart.id,
                       productId |-> data.productId,
                       variantId |-> data.variantId,
                       quantity |-> data.quantity,
                       priceSnapshot |-> PriceSnapshot(loc.product, loc.variant),
                       deliveryChargeSnapshot |-> loc.product.deliveryCharge]}
                /\ Goto(r, "cart.find", [loc EXCEPT !.ret = "respond"])
    /\ UNCHANGED <<products, variants, orders, carts, last, auth, categories>>

AddToCartStep(r) ==
    \/ AddToCartReadProduct(r)
    \/ AddToCartReadVariant(r)
    \/ AddToCartFindExisting(r)
    \/ AddToCartUpdate(r)
    \/ AddToCartCreate(r)

----------------------------------------------------------------------------
(* cart service: updateCartItem *)

ErrItemNotFound == "Cart item not found"
ErrNoLongerAvailable == "Product is no longer available"

StartUpdateCartItem(r, userId, itemId, data) ==
    /\ FreeSlot(r)
    /\ Begin(r, "updateCartItem", userId, [itemId |-> itemId, quantity |-> data.quantity],
             "cart.find",
             [cart |-> NoLoadedCart, ret |-> "item", response |-> NoResponse])
    /\ UNCHANGED <<db, last, auth, categories>>

\* prisma.cartItem.findFirst({ where: { id, cartId }, include: { product, variant } })
\* and the checks on the row
UpdateCartItemFind(r) ==
    /\ At(r, "updateCartItem", "item")
    /\ LET found == {it \in cartItems : it.id = req[r].arg.itemId /\ it.cartId = req[r].loc.cart.id}
       IN  IF found = {} THEN Throw(r, ErrItemNotFound)
           ELSE LET cartItem == CHOOSE it \in found : TRUE
                    product == FindProduct(cartItem.productId)
                    variant == FindVariant(cartItem.variantId)
                    availableStock == IF variant.id # Null THEN variant.stock ELSE product.stock
                IN  IF product.status # "ACTIVE" THEN Throw(r, ErrNoLongerAvailable)
                    ELSE IF req[r].arg.quantity > availableStock THEN Throw(r, ErrInsufficient)
                    ELSE Goto(r, "write", req[r].loc)
    /\ UNCHANGED <<db, last, auth, categories>>

\* an updateCartItem that writes the quantity and never deletes
UpdateCartItemWriteNoDelete(r) ==
    /\ At(r, "updateCartItem", "write")
    /\ cartItems' = {IF it.id = req[r].arg.itemId
                     THEN [it EXCEPT !.quantity = req[r].arg.quantity]
                     ELSE it : it \in cartItems}
    /\ Goto(r, "cart.find", [req[r].loc EXCEPT !.ret = "respond"])
    /\ UNCHANGED <<products, variants, orders, carts, last, auth, categories>>

\* prisma.cartItem.delete when quantity <= 0, else prisma.cartItem.update of
\* the quantity; then return getCart(userId)
UpdateCartItemWrite(r) ==
    /\ At(r, "updateCartItem", "write")
    /\ IF ~ \E it \in cartItems : it.id = req[r].arg.itemId
       THEN Throw(r, ErrRecordNotFound) /\ UNCHANGED cartItems
       ELSE /\ cartItems' =
                 IF req[r].arg.quantity <= 0
                 THEN {it \in cartItems : it.id # req[r].arg.itemId}
                 ELSE {IF it.id = req[r].arg.itemId
                       THEN [it EXCEPT !.quantity = req[r].arg.quantity]
                       ELSE it : it \in cartItems}
            /\ Goto(r, "cart.find", [req[r].loc EXCEPT !.ret = "respond"])
    /\ UNCHANGED <<products, variants, orders, carts, last, auth, categories>>

UpdateCartItemStep(r) ==
    \/ UpdateCartItemFind(r)
    \/ UpdateCartItemWrite(r)

----------------------------------------------------------------------------
(* cart service: removeFromCart and clearCart *)

ErrRecordToDelete == "Record to delete does not exist"

StartRemoveFromCart(r, userId, itemId) ==
    /\ FreeSlot(r)
    /\ Begin(r, "removeFromCart", userId, [itemId |-> itemId], "cart.find",
             [cart |-> NoLoadedCart, ret |-> "item", response |-> NoResponse])
    /\ UNCHANGED <<db, last, auth, categories>>

\* prisma.cartItem.findFirst({ where: { id: itemId, cartId: cart.id } })
RemoveFromCartFind(r) ==
    /\ At(r, "removeFromCart", "item")
    /\ IF ~ \E it \in cartItems : it.id = req[r].arg.itemId /\ it.cartId = req[r].loc.cart.id
       THEN Throw(r, ErrItemNotFound)
       ELSE Goto(r, "delete", req[r].loc)
    /\ UNCHANGED <<db, last, auth, categories>>

\* prisma.cartItem.delete({ where: { id: itemId } }); then return getCart(userId)
RemoveFromCartDelete(r) ==
    /\ At(r, "removeFromCart", "delete")
    /\ IF ~ \E it \in cartItems : it.id = req[r].arg.itemId
       THEN Throw(r, ErrRecordToDelete) /\ UNCHANGED cartItems
       ELSE /\ cartItems' = {it \in cartItems : it.id # req[r].arg.itemId}
            /\ Goto(r, "cart.find", [req[r].loc EXCEPT !.ret = "respond"])
    /\ UNCHANGED <<products, variants, orders, carts, last, auth, categories>>

StartClearCart(r, userId) ==
    /\ FreeSlot(r)
    /\ Begin(r, "clearCart", userId, <<>>, "cart.find",
             [cart |-> NoLoadedCart, ret |-> "deleteMany", response |-> NoResponse])
    /\ UNCHANGED <<db, last, auth, categories>>

\* prisma.cartItem.deleteMany({ where: { cartId: cart.id } }); then return getCart(userId)
ClearCartDeleteMany(r) ==
    /\ At(r, "clearCart", "deleteMany")
    /\ cartItems' = cartItems \ RowsOfCart(req[r].loc.cart.id)
    /\ Goto(r, "cart.find", [req[r].loc EXCEPT !.ret = "respond"])
    /\ UNCHANGED <<products, variants, orders, carts, last, auth, categories>>

----------------------------------------------------------------------------
(* cart service: validateCartForCheckout called on its own (GET /validate) *)

StartValidateCartForCheckout(r, userId) ==
    /\ FreeSlot(r)
    /\ Begin(r, "validateCartForCheckout", userId, <<>>, "cart.find",
             [cart |-> NoLoadedCart, vidx |-> 1, errors |-> <<>>, availableStock |-> 0,
              valid |-> FALSE])
    /\ UNCHANGED <<db, last, auth, categories>>

----------------------------------------------------------------------------
(* product.service.ts: updateProduct *)

\* a field the request body does not carry
Absent == 0 - 1

ErrProductToUpdate == "Record to update not found"

NoUpdate == [price |-> Absent, discount |-> Absent, status |-> Null, stock |-> Absent,
             deliveryCharge |-> Absent]

StartUpdateProduct(r, productId, data) ==
    /\ FreeSlot(r)
    /\ Begin(r, "updateProduct", Null, [productId |-> productId, data |-> data],
             "update", <<>>)
    /\ UNCHANGED <<db, last, auth, categories>>

\* updateData copies price, discount, status and stock when they are given
\* (deliveryCharge is not copied); prisma.product.update
UpdateProductWrite(r) ==
    /\ At(r, "updateProduct", "update")
    /\ LET data == req[r].arg.data
           id == req[r].arg.productId
       IN  IF id \notin DOMAIN products
           THEN Throw(r, ErrProductToUpdate) /\ UNCHANGED products
           ELSE /\ products' = [products EXCEPT ![id] =
                       [@ EXCEPT !.price = IF data.price # Absent THEN data.price ELSE @,
                                 !.discount = IF data.discount # Absent THEN data.discount ELSE @,
                                 !.status = IF data.status # Null THEN data.status ELSE @,
                                 !.stock = IF data.stock # Absent THEN data.stock ELSE @]]
                /\ Return(r, <<>>)
    /\ UNCHANGED <<variants, orders, carts, cartItems, last, auth, categories>>

----------------------------------------------------------------------------
(* order.service.ts: checkoutFromCart, with validateCartForCheckout,       *)
(* getCartItemsForOrder and clearCartAfterOrder of the cart service        *)

CheckoutTotalAmount(subtotalAmount, discountAmount, deliveryTotal, shippingFee) ==
    subtotalAmount + deliveryTotal + shippingFee - discountAmount

\* order items priced from the live product row
CheckoutItemDataLive(item) ==
    [productId |-> item.productId,
     variantId |-> item.variantId,
     quantity |-> item.quantity,
     unitPrice |-> PriceSnapshot(FindProduct(item.productId), FindVariant(item.variantId)),
     deliveryCharge |-> FindProduct(item.productId).deliveryCharge,
     totalPrice |-> item.priceSnapshot * item.quantity + item.deliveryChargeSnapshot * item.quantity]

CheckoutItemData(item) ==
    [productId |-> item.productId,
     variantId |-> item.variantId,
     quantity |-> item.quantity,
     unitPrice |-> item.priceSnapshot,
     deliveryCharge |-> item.deliveryChargeSnapshot,
     totalPrice |-> item.priceSnapshot * item.quantity + item.deliveryChargeSnapshot * item.quantity]

\* the row prisma.order.create writes for checkoutFromCart
NewCheckoutOrder(userId, data, items) ==
    LET subtotalAmount == SeqSum([i \in DOMAIN items |-> items[i].priceSnapshot * items[i].quantity])
        deliveryTotal == SeqSum([i \in DOMAIN items |->
                                    items[i].deliveryChargeSnapshot * items[i].quantity])
        discountAmount == 0
    IN  [id |-> Len(orders) + 1,
         userId |-> userId,
         status |-> "PENDING",
         paymentStatus |-> IF data.paymentMethod # Null THEN "PENDING" ELSE Null,
         paymentMethod |-> data.paymentMethod,
         subtotalAmount |-> subtotalAmount,
         discountAmount |-> discountAmount,
         shippingFee |-> ShippingFee,
         totalAmount |-> CheckoutTotalAmount(subtotalAmount, discountAmount, deliveryTotal,
                                             ShippingFee),
         shippingAddressId |-> data.shippingAddressId,
         items |-> [i \in DOMAIN items |-> CheckoutItemData(items[i])]]

StartCheckoutFromCart(r, userId, data) ==
    /\ FreeSlot(r)
    /\ Begin(r, "checkoutFromCart", userId, data, "cart.find",
             [cart |-> NoLoadedCart, vidx |-> 1, errors |-> <<>>, availableStock |-> 0,
              items |-> <<>>, orderId |-> 0, dpend |-> {}, vdpend |-> {}])
    /\ UNCHANGED <<db, last, auth, categories>>

\* validateCartForCheckout: the check of a line's quantity, then the next line
ValidateQuantity(r, loc, availableStock) ==
    ValidateNext(r, [loc EXCEPT !.vidx = @ + 1,
                                !.errors = IF loc.cart.items[loc.vidx].quantity > availableStock
                                           THEN Append(@, ErrInsufficient) ELSE @])

\* a validation that drops the cart line of a product that is not ACTIVE
ValidateReadProductDropsLine(r) ==
    /\ req[r].pc = "v.product"
    /\ LET loc == req[r].loc
           item == loc.cart.items[loc.vidx]
           product == FindProduct(item.productId)
       IN  IF product.status # "ACTIVE"
           THEN /\ cartItems' = {it \in cartItems : it.id # item.id}
                /\ ValidateNext(r, [loc EXCEPT !.vidx = @ + 1, !.errors = Append(@, ErrNotAvailable)])
           ELSE /\ UNCHANGED cartItems
                /\ IF item.variantId # Null
                   THEN Goto(r, "v.variant", [loc EXCEPT !.availableStock = product.stock])
                   ELSE ValidateQuantity(r, loc, product.stock)
    /\ UNCHANGED <<products, variants, orders, carts, last, auth, categories>>

\* validateCartForCheckout: prisma.product.findUnique for one cart line
ValidateReadProduct(r) ==
    /\ req[r].pc = "v.product"
    /\ LET loc == req[r].loc
           item == loc.cart.items[loc.vidx]
           product == FindProduct(item.productId)
       IN  IF product.id = Null
           THEN ValidateNext(r, [loc EXCEPT !.vidx = @ + 1, !.errors = Append(@, ErrCartProduct)])
           ELSE IF product.status # "ACTIVE"
           THEN ValidateNext(r, [loc EXCEPT !.vidx = @ + 1, !.errors = Append(@, ErrNotAvailable)])
           ELSE IF item.variantId # Null
           THEN Goto(r, "v.variant", [loc EXCEPT !.availableStock = product.stock])
           ELSE ValidateQuantity(r, loc, product.stock)
    /\ UNCHANGED <<db, last, auth, categories>>

\* validateCartForCheckout: prisma.productVariant.findUnique for one cart line
ValidateReadVariant(r) ==
    /\ req[r].pc = "v.variant"
    /\ LET loc == req[r].loc
           variant == FindVariant(loc.cart.items[loc.vidx].variantId)
       IN  ValidateQuantity(r, loc, IF variant.id # Null THEN variant.stock ELSE loc.availableStock)
    /\ UNCHANGED <<db, last, auth, categories>>

\* an address check that empties the cart before it refuses
CheckoutAddressClearsFirst(r) ==
    /\ At(r, "checkoutFromCart", "address")
    /\ IF AddressOwner[req[r].arg.shippingAddressId] # req[r].userId
       THEN /\ Throw(r, ErrAddress)
            /\ cartItems' = cartItems \ RowsOfCart(req[r].loc.cart.id)
       ELSE /\ Goto(r, "items", req[r].loc)
            /\ UNCHANGED cartItems
    /\ UNCHANGED <<products, variants, orders, carts, last, auth, categories>>

\* prisma.orderAddress.findFirst({ where: { id, userId } })
CheckoutAddress(r) ==
    /\ At(r, "checkoutFromCart", "address")
    /\ IF AddressOwner[req[r].arg.shippingAddressId] # req[r].userId
       THEN Throw(r, ErrAddress)
       ELSE Goto(r, "items", req[r].loc)
    /\ UNCHANGED <<db, last, auth, categories>>

\* getCartItemsForOrder: prisma.cart.findUnique with the items
CheckoutReadItems(r) ==
    /\ At(r, "checkoutFromCart", "items")
    /\ LET cart == FindCart(req[r].userId)
       IN  Goto(r, "create",
                [req[r].loc EXCEPT !.items = IF cart.id = 0 THEN <<>>
                                             ELSE OldestFirst(RowsOfCart(cart.id))])
    /\ UNCHANGED <<db, last, auth, categories>>

\* the stock updates still to make, then clearCartAfterOrder
CheckoutAfterUpdate(r, loc) ==
    Goto(r, IF loc.dpend # {} THEN "decrement"
            ELSE IF loc.vdpend # {} THEN "vdecrement"
            ELSE "clear.find", loc)

\* prisma.order.create of the order and its items
CheckoutPersist(r) ==
    /\ At(r, "checkoutFromCart", "create")
    /\ LET loc == req[r].loc
           order == NewCheckoutOrder(req[r].userId, req[r].arg, loc.items)
       IN  /\ orders' = Append(orders, order)
           /\ CheckoutAfterUpdate(r, [loc EXCEPT
                  !.orderId = order.id,
                  !.dpend = DOMAIN loc.items,
                  !.vdpend = {i \in DOMAIN loc.items : loc.items[i].variantId # Null}])
    /\ UNCHANGED <<products, variants, carts, cartItems, last, auth, categories>>

\* one prisma.product.update({ stock: { decrement } }) of the first Promise.all
CheckoutDecrement(r, i) ==
    /\ At(r, "checkoutFromCart", "decrement")
    /\ i \in req[r].loc.dpend
    /\ products' = AdjustStock(products, req[r].loc.items[i].productId,
                               0 - req[r].loc.items[i].quantity)
    /\ CheckoutAfterUpdate(r, [req[r].loc EXCEPT !.dpend = @ \ {i}])
    /\ UNCHANGED <<variants, orders, carts, cartItems, last, auth, categories>>

\* one prisma.productVariant.update({ stock: { decrement } }) of the second
CheckoutDecrementVariant(r, i) ==
    /\ At(r, "checkoutFromCart", "vdecrement")
    /\ i \in req[r].loc.vdpend
    /\ variants' = AdjustStock(variants, req[r].loc.items[i].variantId,
                               0 - req[r].loc.items[i].quantity)
    /\ CheckoutAfterUpdate(r, [req[r].loc EXCEPT !.vdpend = @ \ {i}])
    /\ UNCHANGED <<products, orders, carts, cartItems, last, auth, categories>>

\* clearCartAfterOrder: prisma.cart.findUnique({ where: { userId } })
ClearCartFind(r) ==
    /\ At(r, "checkoutFromCart", "clear.find")
    /\ LET cart == FindCart(req[r].userId)
       IN  IF cart.id = 0 THEN Return(r, req[r].loc)
           ELSE Goto(r, "clear.delete", [req[r].loc EXCEPT !.cart = LoadCart(cart)])
    /\ UNCHANGED <<db, last, auth, categories>>

\* a clearCartAfterOrder that deletes no row
ClearCartDeleteNone(r) ==
    /\ At(r, "checkoutFromCart", "clear.delete")
    /\ Return(r, req[r].loc)
    /\ UNCHANGED <<db, last, auth, categories>>

\* clearCartAfterOrder: prisma.cartItem.deleteMany({ where: { cartId } })
ClearCartDelete(r) ==
    /\ At(r, "checkoutFromCart", "clear.delete")
    /\ cartItems' = cartItems \ RowsOfCart(req[r].loc.cart.id)
    /\ Return(r, req[r].loc)
    /\ UNCHANGED <<products, variants, orders, carts, last, auth, categories>>

\* the positions of a line in a cart
CartLineIdx == 1..(Cardinality(ProductIds) * (Cardinality(VariantIds) + 1))

CheckoutStep(r) ==
    \/ ValidateReadProduct(r)
    \/ ValidateReadVariant(r)
    \/ CheckoutAddress(r)
    \/ CheckoutReadItems(r)
    \/ CheckoutPersist(r)
    \/ \E i \in CartLineIdx : CheckoutDecrement(r, i)
    \/ \E i \in CartLineIdx : CheckoutDecrementVariant(r, i)
    \/ ClearCartFind(r)
    \/ ClearCartDelete(r)

----------------------------------------------------------------------------
(* verification.service.ts: sendEmailVerificationOTP and verifyEmailOTP    *)

Emails == {"e1", "e2"}
EmailOf == [u \in UserIds |-> IF u = "u1" THEN "e1" ELSE "e2"]

\* the codes generateOTP draws from, and the codes a caller tries
OtpCodes == {"111111", "222222"}

ErrUserNotFound == "User not found"
ErrSendFailed == "Failed to send verification email. Please try again."
ErrNoPending == "No pending verification found. Please request a new code."
ErrExpired == "Verification code has expired. Please request a new one."
ErrTooMany == "Too many failed attempts. Please request a new code."
ErrInvalidCode == "Invalid verification code"

NoOtp == [id |-> 0, userId |-> Null, email |-> Null, otpCode |-> Null, attempts |-> 0,
          verified |-> FALSE, expired |-> FALSE]

\* no OTP is requested once n have been issued or are being issued
OtpsBelow(n) ==
    Cardinality(emailOTPs)
      + Cardinality({r \in Slots : req[r].op = "sendEmailVerificationOTP"}) < n

StartSendEmailVerificationOTP(r, userId) ==
    /\ FreeSlot(r)
    /\ Begin(r, "sendEmailVerificationOTP", userId, [email |-> EmailOf[userId]], "user", <<>>)
    /\ UNCHANGED <<db, last, auth, categories>>

\* prisma.user.findUnique and the early returns
SendOtpFindUser(r) ==
    /\ At(r, "sendEmailVerificationOTP", "user")
    /\ IF req[r].userId \notin DOMAIN users THEN Throw(r, ErrUserNotFound)
       ELSE IF users[req[r].userId].isVerified THEN Return(r, <<>>)
       ELSE Goto(r, "invalidate", <<>>)
    /\ UNCHANGED <<db, last, auth, categories>>

\* prisma.emailOTP.updateMany({ where: { userId, verified: false }, data: { verified: true } })
SendOtpInvalidate(r) ==
    /\ At(r, "sendEmailVerificationOTP", "invalidate")
    /\ emailOTPs' = {IF o.userId = req[r].userId /\ ~ o.verified
                     THEN [o EXCEPT !.verified = TRUE] ELSE o : o \in emailOTPs}
    /\ Goto(r, "create", <<>>)
    /\ UNCHANGED <<db, last, users, invalidAnswers, categories>>

\* generateOTP(6) and prisma.emailOTP.create (attempts 0, verified false)
SendOtpCreate(r) ==
    /\ At(r, "sendEmailVerificationOTP", "create")
    /\ \E otpCode \in OtpCodes :
          emailOTPs' = emailOTPs \cup
              {[id |-> MaxId(emailOTPs) + 1, userId |-> req[r].userId,
                email |-> req[r].arg.email, otpCode |-> otpCode, attempts |-> 0,
                verified |-> FALSE, expired |-> FALSE]}
    /\ Goto(r, "send", <<>>)
    /\ UNCHANGED <<db, last, users, invalidAnswers, categories>>

\* sendVerificationEmail: the mail goes out or it does not
SendOtpMail(r) ==
    /\ At(r, "sendEmailVerificationOTP", "send")
    /\ \E sent \in BOOLEAN : IF sent THEN Return(r, <<>>) ELSE Throw(r, ErrSendFailed)
    /\ UNCHANGED <<db, last, auth, categories>>

\* the clock passes expiresAt of an OTP: isExpired is true from then on
OtpExpires(id) ==
    /\ \E o \in emailOTPs : o.id = id /\ ~ o.expired
    /\ emailOTPs' = {IF o.id = id THEN [o EXCEPT !.expired = TRUE] ELSE o : o \in emailOTPs}
    /\ UNCHANGED <<db, req, last, users, invalidAnswers, categories>>

StartVerifyEmailOTP(r, email, otpCode) ==
    /\ FreeSlot(r)
    /\ Begin(r, "verifyEmailOTP", Null, [email |-> email, otpCode |-> otpCode], "find",
             [emailOTP |-> NoOtp])
    /\ UNCHANGED <<db, last, auth, categories>>

\* prisma.emailOTP.findFirst({ where: { email, verified: false },
\* orderBy: { createdAt: 'desc' } }) and the checks on the row
VerifyOtpFind(r) ==
    /\ At(r, "verifyEmailOTP", "find")
    /\ LET pending == {o \in emailOTPs : o.email = req[r].arg.email /\ ~ o.verified}
       IN  IF pending = {} THEN Throw(r, ErrNoPending)
           ELSE LET emailOTP == CHOOSE o \in pending : o.id = MaxId(pending)
                IN  IF emailOTP.expired THEN Throw(r, ErrExpired)
                    ELSE IF emailOTP.attempts >= MAX_OTP_ATTEMPTS THEN Throw(r, ErrTooMany)
                    ELSE IF emailOTP.otpCode # req[r].arg.otpCode
                    THEN Goto(r, "attempts", [emailOTP |-> emailOTP])
                    ELSE Goto(r, "verify", [emailOTP |-> emailOTP])
    /\ UNCHANGED <<db, last, auth, categories>>

\* prisma.emailOTP.update({ data: { attempts: emailOTP.attempts + 1 } }) with
\* the attempts of the row as it was read, then the 'Invalid verification
\* code' error
VerifyOtpCount(r) ==
    /\ At(r, "verifyEmailOTP", "attempts")
    /\ LET emailOTP == req[r].loc.emailOTP
       IN  /\ emailOTPs' = {IF o.id = emailOTP.id
                            THEN [o EXCEPT !.attempts = emailOTP.attempts + 1]
                            ELSE o : o \in emailOTPs}
           /\ invalidAnswers' = [invalidAnswers EXCEPT ![emailOTP.id] = @ + 1]
    /\ Throw(r, ErrInvalidCode)
    /\ UNCHANGED <<db, last, users, categories>>

\* prisma.$transaction([emailOTP.update({ verified: true }),
\* user.update({ isVerified: true })])
VerifyOtpCommit(r) ==
    /\ At(r, "verifyEmailOTP", "verify")
    /\ LET emailOTP == req[r].loc.emailOTP
       IN  /\ emailOTPs' = {IF o.id = emailOTP.id
                            THEN [o EXCEPT !.verified = TRUE] ELSE o : o \in emailOTPs}
           /\ users' = [users EXCEPT ![emailOTP.userId].isVerified = TRUE]
    /\ Return(r, req[r].loc)
    /\ UNCHANGED <<db, last, invalidAnswers, categories>>

----------------------------------------------------------------------------
(* category.service.ts: createCategory and updateCategory (parent changes) *)

CategoryIds == 1..MaxCategories
Slugs == 1..MaxCategories

\* parentId: null
NoParent == 0

ErrSlugExists == "Category with this slug already exists"
ErrParentNotFound == "Parent category not found"
ErrCategoryNotFound == "Category not found"
ErrOwnParent == "Category cannot be its own parent"
ErrCircular == "Cannot set a descendant as parent (circular reference)"

\* no category is created once n exist or are being created
CategoriesBelow(n) ==
    Cardinality(DOMAIN categories)
      + Cardinality({r \in Slots : req[r].op = "createCategory"}) < n

StartCreateCategory(r, data) ==
    /\ FreeSlot(r)
    /\ Begin(r, "createCategory", Null, data, "slug", <<>>)
    /\ UNCHANGED <<db, last, auth, categories>>

\* prisma.category.findUnique({ where: { slug } })
CreateCategorySlug(r) ==
    /\ At(r, "createCategory", "slug")
    /\ IF \E c \in DOMAIN categories : categories[c].slug = req[r].arg.slug
       THEN Throw(r, ErrSlugExists)
       ELSE Goto(r, IF req[r].arg.parentId # NoParent THEN "parent" ELSE "create", <<>>)
    /\ UNCHANGED <<db, last, auth, categories>>

\* prisma.category.findUnique({ where: { id: data.parentId } })
CreateCategoryParent(r) ==
    /\ At(r, "createCategory", "parent")
    /\ IF req[r].arg.parentId \notin DOMAIN categories THEN Throw(r, ErrParentNotFound)
       ELSE Goto(r, "create", <<>>)
    /\ UNCHANGED <<db, last, auth, categories>>

\* prisma.category.create; categories_slug_key is a unique index
CreateCategoryCreate(r) ==
    /\ At(r, "createCategory", "create")
    /\ IF \E c \in DOMAIN categories : categories[c].slug = req[r].arg.slug
       THEN Throw(r, ErrUnique) /\ UNCHANGED categories
       ELSE LET id == Cardinality(DOMAIN categories) + 1
            IN  /\ categories' = categories @@ (id :> [id |-> id, slug |-> req[r].arg.slug,
                                                        parentId |-> req[r].arg.parentId])
                /\ Return(r, <<>>)
    /\ UNCHANGED <<db, last, auth>>

StartUpdateCategory(r, categoryId, data) ==
    /\ FreeSlot(r)
    /\ Begin(r, "updateCategory", Null, [categoryId |-> categoryId, parentId |-> data.parentId],
             "find", <<>>)
    /\ UNCHANGED <<db, last, auth, categories>>

\* prisma.category.findUnique({ where: { id: categoryId } }) and the checks
\* that need no further read
UpdateCategoryFind(r) ==
    /\ At(r, "updateCategory", "find")
    /\ IF req[r].arg.categoryId \notin DOMAIN categories THEN Throw(r, ErrCategoryNotFound)
       ELSE IF req[r].arg.parentId = req[r].arg.categoryId THEN Throw(r, ErrOwnParent)
       ELSE Goto(r, IF req[r].arg.parentId # NoParent THEN "parent" ELSE "update", <<>>)
    /\ UNCHANGED <<db, last, auth, categories>>

\* prisma.category.findUnique({ where: { id: data.parentId } })
UpdateCategoryParent(r) ==
    /\ At(r, "updateCategory", "parent")
    /\ IF req[r].arg.parentId \notin DOMAIN categories THEN Throw(r, ErrParentNotFound)
       ELSE Goto(r, "descendants", <<>>)
    /\ UNCHANGED <<db, last, auth, categories>>

\* the categories whose parent is in S
ChildrenOf(S) == {c \in DOMAIN categories : categories[c].parentId \in S}

RECURSIVE Below(_, _)
Below(S, n) == IF n = 0 THEN S ELSE Below(S \cup ChildrenOf(S), n - 1)

\* getDescendantIds: the children, their children, and so on
DescendantIds(categoryId) == Below(ChildrenOf({categoryId}), Cardinality(DOMAIN categories))

\* the recursion of getDescendantIds ends: it meets no category twice
DescentEnds(categoryId) ==
    \A c \in {categoryId} \cup DescendantIds(categoryId) : c \notin DescendantIds(c)

\* getDescendantIds(categoryId), its reads taken together, and the check
\* for a circular reference; the call does not return when the recursion
\* does not end
UpdateCategoryDescendants(r) ==
    /\ At(r, "updateCategory", "descendants")
    /\ DescentEnds(req[r].arg.categoryId)
    /\ IF req[r].arg.parentId \in DescendantIds(req[r].arg.categoryId)
       THEN Throw(r, ErrCircular)
       ELSE Goto(r, "update", <<>>)
    /\ UNCHANGED <<db, last, auth, categories>>

\* prisma.category.update({ data: { parentId: data.parentId } })
UpdateCategoryWrite(r) ==
    /\ At(r, "updateCategory", "update")
    /\ categories' = [categories EXCEPT ![req[r].arg.categoryId].parentId = req[r].arg.parentId]
    /\ Return(r, <<>>)
    /\ UNCHANGED <<db, last, auth>>

----------------------------------------------------------------------------
(* Initial state: a catalogue of two products and one variant, no orders,  *)
(* no carts, no request in flight                                          *)

InitProducts ==
    [p \in ProductIds |->
        IF p = "p1"
        THEN [id |-> "p1", price |-> 300, discount |-> 0, deliveryCharge |-> 50,
              stock |-> MaxStock, status |-> "ACTIVE"]
        ELSE [id |-> "p2", price |-> 200, discount |-> 10, deliveryCharge |-> 0,
              stock |-> MaxStock, status |-> "ACTIVE"]]

InitVariants ==
    [v \in VariantIds |-> [id |-> v, productId |-> "p1", priceDiff |-> 100, stock |-> MaxStock]]

\* registered users, not verified yet
InitUsers == [u \in UserIds |-> [email |-> EmailOf[u], isVerified |-> FALSE]]

\* a forest of two root categories
InitCategories == [c \in 1..2 |-> [id |-> c, slug |-> c, parentId |-> NoParent]]

Init ==
    /\ products = InitProducts
    /\ variants = InitVariants
    /\ orders = <<>>
    /\ carts = {}
    /\ cartItems = {}
    /\ req = [r \in Slots |-> Idle]
    /\ last = NoLast
    /\ users = InitUsers
    /\ emailOTPs = {}
    /\ invalidAnswers = [id \in 1..MaxOtps |-> 0]
    /\ categories = InitCategories

----------------------------------------------------------------------------
(* Spec: the order lifecycle, one request at a time.  u1 places orders at  *)
(* its own address; u1 and u2 read, update and cancel them.                *)

LifecycleItems ==
    {<<Item("p1", Null, 1)>>, <<Item("p1", "v1", 1), Item("p2", Null, 1)>>}

LifecycleOrders ==
    [items : LifecycleItems, shippingAddressId : {"a1"}, paymentMethod : {"COD"}]

OrderRefs == 1..MaxOrders

Next ==
    \/ \E r \in Slots, data \in LifecycleOrders :
          AllIdle /\ OrdersBelow(MaxOrders) /\ StartCreateOrder(r, "u1", data)
    \/ \E r \in Slots, u \in UserIds, o \in OrderRefs :
          AllIdle /\ StartGetOrderById(r, u, o)
    \/ \E r \in Slots, u \in UserIds, o \in OrderRefs, st \in OrderStatuses :
          AllIdle /\ StartUpdateOrderStatus(r, u, o, st)
    \/ \E r \in Slots, u \in UserIds, o \in OrderRefs, data \in PaymentUpdates :
          AllIdle /\ StartUpdatePaymentStatus(r, u, o, data)
    \/ \E r \in Slots, u \in UserIds, o \in OrderRefs :
          AllIdle /\ StartCancelOrder(r, u, o)
    \/ \E r \in Slots : CreateOrderStep(r)
    \/ \E r \in Slots : GetOrderByIdFind(r)
    \/ \E r \in Slots : UpdateOrderStatusStep(r)
    \/ \E r \in Slots : UpdatePaymentStatusStep(r)
    \/ \E r \in Slots : CancelOrderStep(r)
    \/ \E r \in Slots : Reply(r)

Spec == Init /\ [][Next]_vars

----------------------------------------------------------------------------
(* SpecCheckout: u1 fills its cart, checks out, places orders directly and *)
(* cancels them, one request at a time; the answered request is recorded.  *)

CartAdds ==
    {[productId |-> "p1", variantId |-> "v1", quantity |-> q] : q \in 1..MaxQty}
    \cup {[productId |-> "p2", variantId |-> Null, quantity |-> 1]}

CheckoutRequests == [shippingAddressId : {"a1"}, paymentMethod : {Null}]

DirectOrders ==
    [items : {<<Item("p1", Null, 1)>>, <<Item("p1", "v1", 1), Item("p2", Null, 1)>>},
     shippingAddressId : {"a1"}, paymentMethod : {Null}]

NextCheckout ==
    \/ \E r \in Slots, data \in CartAdds : AllIdle /\ StartAddToCart(r, "u1", data)
    \/ \E r \in Slots : AllIdle /\ StartGetCart(r, "u1")
    \/ \E r \in Slots, data \in CheckoutRequests :
          AllIdle /\ OrdersBelow(MaxOrders) /\ StartCheckoutFromCart(r, "u1", data)
    \/ \E r \in Slots, data \in DirectOrders :
          AllIdle /\ OrdersBelow(MaxOrders) /\ StartCreateOrder(r, "u1", data)
    \/ \E r \in Slots, o \in OrderRefs : AllIdle /\ StartCancelOrder(r, "u1", o)
    \/ \E r \in Slots : AddToCartStep(r)
    \/ \E r \in Slots : GetCartStep(r)
    \/ \E r \in Slots : CheckoutStep(r)
    \/ \E r \in Slots : CreateOrderStep(r)
    \/ \E r \in Slots : CancelOrderStep(r)
    \/ \E r \in Slots : ReplyRecorded(r)

SpecCheckout == Init /\ [][NextCheckout]_vars

----------------------------------------------------------------------------
(* SpecRace: createOrder requests for p1 that interleave at their database *)
(* round-trips.                                                            *)

AddressOf(u) == CHOOSE a \in AddressIds : AddressOwner[a] = u

RaceItems == {<<Item("p1", Null, q)>> : q \in 1..MaxQty} \cup {<<Item("p1", "v1", 1)>>}

NextRace ==
    \/ \E r \in Slots, u \in UserIds, items \in RaceItems :
          OrdersBelow(MaxOrders) /\ StartCreateOrder(r, u, [items |-> items, shippingAddressId |-> AddressOf(u),
                                  paymentMethod |-> Null])
    \/ \E r \in Slots : CreateOrderStep(r)
    \/ \E r \in Slots : Reply(r)

SpecRace == Init /\ [][NextRace]_vars

----------------------------------------------------------------------------
(* SpecCatalog: the vendor edits the catalogue while u1 fills its cart,    *)
(* checks out and places orders directly, with requests the service must   *)
(* refuse among them; one request at a time.                               *)

\* ids no row has
MissingProductId == "p0"
MissingVariantId == "v0"

ProductUpdates ==
    {[productId |-> "p1", data |-> [NoUpdate EXCEPT !.stock = MaxStock + 1]],
     [productId |-> "p2", data |-> [NoUpdate EXCEPT !.status = "INACTIVE"]],
     [productId |-> "p2", data |-> [NoUpdate EXCEPT !.price = 500, !.deliveryCharge = 70]]}

CatalogAdds ==
    {[productId |-> "p1", variantId |-> "v1", quantity |-> 1],
     [productId |-> "p2", variantId |-> Null, quantity |-> 1]}

CatalogCheckouts == [shippingAddressId : AddressIds, paymentMethod : {Null}]

CatalogItems ==
    {<<Item("p1", "v1", 1)>>,
     <<Item(MissingProductId, Null, 1)>>,
     <<Item("p1", MissingVariantId, 1)>>,
     <<Item("p1", "v1", MaxStock + 1)>>,
     <<Item("p2", "v1", 1)>>,
     <<Item("p2", Null, 1)>>}

CatalogOrders ==
    [items : CatalogItems, shippingAddressId : {"a1"}, paymentMethod : {Null}]
    \cup [items : {<<Item("p1", "v1", 1)>>}, shippingAddressId : {"a2"}, paymentMethod : {Null}]

NextCatalog ==
    \/ \E r \in Slots, u \in ProductUpdates :
          AllIdle /\ StartUpdateProduct(r, u.productId, u.data)
    \/ \E r \in Slots, data \in CatalogAdds : AllIdle /\ StartAddToCart(r, "u1", data)
    \/ \E r \in Slots, data \in CatalogCheckouts :
          AllIdle /\ OrdersBelow(MaxOrders) /\ StartCheckoutFromCart(r, "u1", data)
    \/ \E r \in Slots, data \in CatalogOrders :
          AllIdle /\ OrdersBelow(MaxOrders) /\ StartCreateOrder(r, "u1", data)
    \/ \E r \in Slots : UpdateProductWrite(r)
    \/ \E r \in Slots : GetOrCreateCartFind(r)
    \/ \E r \in Slots : GetOrCreateCartCreate(r)
    \/ \E r \in Slots : GetCartRespond(r)
    \/ \E r \in Slots : AddToCartStep(r)
    \/ \E r \in Slots : CheckoutStep(r)
    \/ \E r \in Slots : CreateOrderStep(r)
    \/ \E r \in Slots : Reply(r)

SpecCatalog == Init /\ [][NextCatalog]_vars

----------------------------------------------------------------------------
(* SpecCartEdit: u1 fills and edits its cart and the users validate their  *)
(* carts while the vendor edits the catalogue; one request at a time.      *)

\* the ids of the rows a cart can hold
ItemRefs == 1..Cardinality(CatalogAdds)

ItemUpdates == [quantity : 0..MaxQty]

NextCartEdit ==
    \/ \E r \in Slots, u \in ProductUpdates :
          AllIdle /\ StartUpdateProduct(r, u.productId, u.data)
    \/ \E r \in Slots, data \in CatalogAdds : AllIdle /\ StartAddToCart(r, "u1", data)
    \/ \E r \in Slots, itemId \in ItemRefs, data \in ItemUpdates :
          AllIdle /\ StartUpdateCartItem(r, "u1", itemId, data)
    \/ \E r \in Slots, u \in UserIds : AllIdle /\ StartValidateCartForCheckout(r, u)
    \/ \E r \in Slots : UpdateProductWrite(r)
    \/ \E r \in Slots : GetCartStep(r)
    \/ \E r \in Slots : AddToCartStep(r)
    \/ \E r \in Slots : UpdateCartItemStep(r)
    \/ \E r \in Slots : ValidateReadProduct(r)
    \/ \E r \in Slots : ValidateReadVariant(r)
    \/ \E r \in Slots : Reply(r)

SpecCartEdit == Init /\ [][NextCartEdit]_vars

----------------------------------------------------------------------------
(* SpecCartRace: first access to the cart.  Requests of u1 that reach for  *)
(* its cart (getCart, addToCart, validateCartForCheckout) arrive while u1  *)
(* has no cart and interleave at their database round-trips.               *)

RaceAdds == {[productId |-> "p1", variantId |-> "v1", quantity |-> 1]}

NoCartYet(userId) == FindCart(userId).id = 0

NextCartRace ==
    \/ \E r \in Slots : NoCartYet("u1") /\ StartGetCart(r, "u1")
    \/ \E r \in Slots, data \in RaceAdds : NoCartYet("u1") /\ StartAddToCart(r, "u1", data)
    \/ \E r \in Slots : NoCartYet("u1") /\ StartValidateCartForCheckout(r, "u1")
    \/ \E r \in Slots : GetCartStep(r)
    \/ \E r \in Slots : AddToCartStep(r)
    \/ \E r \in Slots : ValidateReadProduct(r)
    \/ \E r \in Slots : ValidateReadVariant(r)
    \/ \E r \in Slots : Reply(r)

SpecCartRace == Init /\ [][NextCartRace]_vars

----------------------------------------------------------------------------
(* SpecEquiv: u1 fills its cart, places an order directly and checks the   *)
(* cart out, one request at a time, so that an order made by createOrder   *)
(* and one made by checkoutFromCart can be compared.                       *)

EquivOrders ==
    [items : {<<Item("p1", "v1", 1)>>, <<Item("p2", Null, 1)>>,
              <<Item("p1", "v1", 1), Item("p2", Null, 1)>>},
     shippingAddressId : {"a1"}, paymentMethod : {Null}]

NextEquiv ==
    \/ \E r \in Slots, data \in CatalogAdds : AllIdle /\ StartAddToCart(r, "u1", data)
    \/ \E r \in Slots, data \in CheckoutRequests :
          AllIdle /\ OrdersBelow(MaxOrders + 1) /\ StartCheckoutFromCart(r, "u1", data)
    \/ \E r \in Slots, data \in EquivOrders :
          AllIdle /\ OrdersBelow(MaxOrders + 1) /\ StartCreateOrder(r, "u1", data)
    \/ \E r \in Slots : GetOrCreateCartFind(r)
    \/ \E r \in Slots : GetOrCreateCartCreate(r)
    \/ \E r \in Slots : GetCartRespond(r)
    \/ \E r \in Slots : AddToCartStep(r)
    \/ \E r \in Slots : CheckoutStep(r)
    \/ \E r \in Slots : CreateOrderStep(r)
    \/ \E r \in Slots : ReplyRecorded(r)

SpecEquiv == Init /\ [][NextEquiv]_vars

----------------------------------------------------------------------------
(* SpecSolo: the vendor sets prices and stocks and u1 places orders        *)
(* directly over every item list, one request at a time.                   *)

SoloUpdates ==
    {[productId |-> "p2", data |-> [NoUpdate EXCEPT !.price = 100, !.stock = 5]],
     [productId |-> "p1", data |-> [NoUpdate EXCEPT !.stock = 1]]}

NextSolo ==
    \/ \E r \in Slots, u \in SoloUpdates :
          AllIdle /\ StartUpdateProduct(r, u.productId, u.data)
    \/ \E r \in Slots, items \in ItemLists :
          AllIdle /\ OrdersBelow(MaxOrders)
                  /\ StartCreateOrder(r, "u1", [items |-> items, shippingAddressId |-> "a1",
                                                paymentMethod |-> Null])
    \/ \E r \in Slots : UpdateProductWrite(r)
    \/ \E r \in Slots : CreateOrderStep(r)
    \/ \E r \in Slots : Reply(r)

SpecSolo == Init /\ [][NextSolo]_vars

----------------------------------------------------------------------------
(* SpecCheckoutRace: u1 fills its cart while no other request runs, and    *)
(* its checkoutFromCart requests interleave at their database round-trips. *)

NextCheckoutRace ==
    \/ \E r \in Slots, data \in CatalogAdds : AllIdle /\ StartAddToCart(r, "u1", data)
    \/ \E r \in Slots, data \in CheckoutRequests :
          OrdersBelow(MaxOrders + 1) /\ StartCheckoutFromCart(r, "u1", data)
    \/ \E r \in Slots : GetOrCreateCartFind(r)
    \/ \E r \in Slots : GetOrCreateCartCreate(r)
    \/ \E r \in Slots : GetCartRespond(r)
    \/ \E r \in Slots : AddToCartStep(r)
    \/ \E r \in Slots : CheckoutStep(r)
    \/ \E r \in Slots : Reply(r)

SpecCheckoutRace == Init /\ [][NextCheckoutRace]_vars

----------------------------------------------------------------------------
(* SpecCartCheckout: u1 checks its cart out while one of its other cart    *)
(* requests (addToCart, updateCartItem, removeFromCart, clearCart)         *)
(* interleaves with the checkout at the database round-trips.              *)

NoCheckoutRunning == \A r \in Slots : req[r].op # "checkoutFromCart"

\* the cart requests do not overlap each other, only a checkout
NoCartRequestRunning == \A r \in Slots : req[r].op \in {"none", "checkoutFromCart"}

NextCartCheckout ==
    \/ \E r \in Slots, data \in RaceAdds :
          NoCartRequestRunning /\ StartAddToCart(r, "u1", data)
    \/ \E r \in Slots, itemId \in ItemRefs, data \in ItemUpdates :
          NoCartRequestRunning /\ StartUpdateCartItem(r, "u1", itemId, data)
    \/ \E r \in Slots, itemId \in ItemRefs :
          NoCartRequestRunning /\ StartRemoveFromCart(r, "u1", itemId)
    \/ \E r \in Slots : NoCartRequestRunning /\ StartClearCart(r, "u1")
    \/ \E r \in Slots, data \in CheckoutRequests :
          /\ NoCheckoutRunning
          /\ OrdersBelow(MaxOrders)
          /\ StartCheckoutFromCart(r, "u1", data)
    \/ \E r \in Slots : GetOrCreateCartFind(r)
    \/ \E r \in Slots : GetOrCreateCartCreate(r)
    \/ \E r \in Slots : GetCartRespond(r)
    \/ \E r \in Slots : AddToCartStep(r)
    \/ \E r \in Slots : UpdateCartItemStep(r)
    \/ \E r \in Slots : RemoveFromCartFind(r)
    \/ \E r \in Slots : RemoveFromCartDelete(r)
    \/ \E r \in Slots : ClearCartDeleteMany(r)
    \/ \E r \in Slots : CheckoutStep(r)
    \/ \E r \in Slots : Reply(r)

SpecCartCheckout == Init /\ [][NextCartCheckout]_vars

----------------------------------------------------------------------------
(* SpecOtp: u1 requests email OTPs and verification attempts for the       *)
(* emails arrive, right and wrong; the requests interleave at their        *)
(* database round-trips and the clock may pass an OTP's expiry.            *)

OtpRefs == 1..MaxOtps

\* the specification starts no verification once an OTP was refused n times
AnswersBelow(n) == \A id \in OtpRefs : invalidAnswers[id] < n

NextOtp ==
    \/ \E r \in Slots : OtpsBelow(MaxOtps) /\ StartSendEmailVerificationOTP(r, "u1")
    \/ \E r \in Slots, email \in Emails, otpCode \in OtpCodes :
          AnswersBelow(MaxAnswers) /\ StartVerifyEmailOTP(r, email, otpCode)
    \/ \E r \in Slots : SendOtpFindUser(r)
    \/ \E r \in Slots : SendOtpInvalidate(r)
    \/ \E r \in Slots : SendOtpCreate(r)
    \/ \E r \in Slots : SendOtpMail(r)
    \/ \E id \in OtpRefs : OtpExpires(id)
    \/ \E r \in Slots : VerifyOtpFind(r)
    \/ \E r \in Slots : VerifyOtpCount(r)
    \/ \E r \in Slots : VerifyOtpCommit(r)
    \/ \E r \in Slots : Reply(r)

SpecOtp == Init /\ [][NextOtp]_vars

----------------------------------------------------------------------------
(* SpecCategory: categories are created and moved under other parents by   *)
(* requests that interleave at their database round-trips.                 *)

CategoryCreates == [slug : Slugs, parentId : CategoryIds \cup {NoParent}]

CategoryUpdates == [parentId : CategoryIds \cup {NoParent}]

NextCategory ==
    \/ \E r \in Slots, data \in CategoryCreates :
          CategoriesBelow(MaxCategories) /\ StartCreateCategory(r, data)
    \/ \E r \in Slots, c \in CategoryIds, data \in CategoryUpdates :
          StartUpdateCategory(r, c, data)
    \/ \E r \in Slots : CreateCategorySlug(r)
    \/ \E r \in Slots : CreateCategoryParent(r)
    \/ \E r \in Slots : CreateCategoryCreate(r)
    \/ \E r \in Slots : UpdateCategoryFind(r)
    \/ \E r \in Slots : UpdateCategoryParent(r)
    \/ \E r \in Slots : UpdateCategoryDescendants(r)
    \/ \E r \in Slots : UpdateCategoryWrite(r)
    \/ \E r \in Slots : Reply(r)

SpecCategory == Init /\ [][NextCategory]_vars

----------------------------------------------------------------------------
(* Properties *)

Done(r, op) == req[r].pc = "done" /\ req[r].op = op

\* the quantity of product p in the lines of an order
RECURSIVE QuantityOf(_, _)
QuantityOf(items, p) ==
    IF items = <<>> THEN 0
    ELSE (IF Head(items).productId = p THEN Head(items).quantity ELSE 0)
         + QuantityOf(Tail(items), p)

\* the quantity of product p in all orders
OrderedQuantity(p) == SeqSum([o \in DOMAIN orders |-> QuantityOf(orders[o].items, p)])

StocksAsBefore(pre) ==
    /\ \A p \in ProductIds : products[p].stock = pre.stock[p]
    /\ \A v \in VariantIds : variants[v].stock = pre.vstock[v]

OrderAsBefore(pre, o) ==
    /\ orders[o].status = pre.orders[o].status
    /\ orders[o].paymentStatus = pre.orders[o].paymentStatus
    /\ orders[o].paymentMethod = pre.orders[o].paymentMethod

\* C1 (as claimed): under interleaved createOrder requests the stock of
\* every product stays >= 0, and the quantities of the created orders of a
\* product sum to at most its initial stock.
C1_StockNeverNegative ==
    \A p \in ProductIds :
        /\ products[p].stock >= 0
        /\ OrderedQuantity(p) <= InitProducts[p].stock

\* the delivery charges of an order's items, summed over the quantities
OrderDeliveryTotal(order) ==
    SeqSum([i \in DOMAIN order.items |-> order.items[i].deliveryCharge * order.items[i].quantity])

CancelledRightAfterCreation(r) ==
    /\ Done(r, "cancelOrder")
    /\ req[r].err = OK
    /\ last.op \in {"createOrder", "checkoutFromCart"}
    /\ last.err = OK
    /\ last.orderId = req[r].arg.orderId

\* C3: when an order is created (createOrder or checkoutFromCart) and the
\* next request cancels it, every product's stock is again what it was
\* before the order was created.
C3_CancelRestoresStock ==
    \A r \in Slots :
        CancelledRightAfterCreation(r) =>
            \A p \in ProductIds : products[p].stock = last.stock[p]

C3_Witness ==
    \E r \in Slots :
        /\ CancelledRightAfterCreation(r)
        /\ last.op = "checkoutFromCart"
        /\ \E i \in DOMAIN req[r].loc.items : req[r].loc.items[i].quantity = 2

\* an addToCart that succeeded right after a successful addToCart of the
\* same user for the same (productId, variantId)
AddedTwice(r) ==
    /\ Done(r, "addToCart")
    /\ req[r].err = OK
    /\ last.op = "addToCart"
    /\ last.err = OK
    /\ last.userId = req[r].userId
    /\ last.arg.productId = req[r].arg.productId
    /\ last.arg.variantId = req[r].arg.variantId

\* C4: two addToCart calls in sequence for the same (productId, variantId),
\* with quantities q1 and q2, leave exactly one row for the pair in the
\* user's cart; its quantity is q1 + q2 above what the cart held for the
\* pair before (q1 + q2 when it held none), with and without a variant.
C4_AddTwiceOneRow ==
    \A r \in Slots :
        AddedTwice(r) =>
            LET rows == MatchingItems(FindCart(req[r].userId).id,
                                      req[r].arg.productId, req[r].arg.variantId)
            IN  /\ Cardinality(rows) = 1
                /\ \A it \in rows :
                      it.quantity = last.qty + last.arg.quantity + req[r].arg.quantity

C4_Witness ==
    \E r \in Slots :
        /\ AddedTwice(r)
        /\ req[r].arg.variantId = Null
        /\ last.qty = 0
        /\ \E it \in cartItems : it.productId = req[r].arg.productId /\ it.quantity = 2

\* C5: when checkoutFromCart has returned successfully the user's cart has
\* no rows, and a getCart of that user that runs next returns zero items.
C5_CheckoutClearsCart ==
    \A r \in Slots :
        /\ (Done(r, "checkoutFromCart") /\ req[r].err = OK)
              => RowsOfCart(FindCart(req[r].userId).id) = {}
        /\ (/\ Done(r, "getCart")
            /\ req[r].err = OK
            /\ last.op = "checkoutFromCart"
            /\ last.err = OK
            /\ last.userId = req[r].userId)
              => (req[r].loc.response.items = <<>> /\ req[r].loc.response.itemCount = 0)

C5_Witness ==
    \E r \in Slots :
        /\ Done(r, "getCart")
        /\ req[r].err = OK
        /\ last.op = "checkoutFromCart"
        /\ last.err = OK
        /\ last.userId = req[r].userId
        /\ \E o \in DOMAIN orders : Len(orders[o].items) = 2

\* a finished request of `op` on an existing order, by its owner or not
OnOrder(r, op, owner) ==
    /\ Done(r, op)
    /\ req[r].arg.orderId \in DOMAIN req[r].pre.orders
    /\ (orders[req[r].arg.orderId].userId = req[r].userId) = owner

\* C6: cancelOrder by the owner on an order that is CANCELLED, SHIPPED or
\* DELIVERED fails with an error and leaves the order's status and every
\* stock unchanged.
C6_TerminalCancelFails ==
    \A r \in Slots :
        (/\ OnOrder(r, "cancelOrder", TRUE)
         /\ req[r].pre.orders[req[r].arg.orderId].status \in {"CANCELLED", "SHIPPED", "DELIVERED"})
           => /\ req[r].err \in {ErrAlreadyCancelled, ErrShipped}
              /\ OrderAsBefore(req[r].pre, req[r].arg.orderId)
              /\ StocksAsBefore(req[r].pre)

C6_Witness ==
    \E r \in Slots :
        /\ OnOrder(r, "cancelOrder", TRUE)
        /\ req[r].pre.orders[req[r].arg.orderId].status = "DELIVERED"
        /\ req[r].err = ErrShipped

OrderOps == {"getOrderById", "updateOrderStatus", "updatePaymentStatus", "cancelOrder"}

\* C7: getOrderById, updateOrderStatus, updatePaymentStatus and cancelOrder
\* by a user who does not own the order fail with 'Unauthorized: You do not
\* own this order' and leave the order's status, paymentStatus and
\* paymentMethod and every stock unchanged.
C7_NonOwnerRefused ==
    \A r \in Slots : \A op \in OrderOps :
        OnOrder(r, op, FALSE)
           => /\ req[r].err = ErrNotOwner
              /\ OrderAsBefore(req[r].pre, req[r].arg.orderId)
              /\ StocksAsBefore(req[r].pre)

C7_Witness ==
    \E r \in Slots :
        /\ OnOrder(r, "updatePaymentStatus", FALSE)
        /\ req[r].arg.paymentMethod = "CARD"
        /\ orders[req[r].arg.orderId].paymentMethod = "COD"

\* C8 (as claimed): cancelOrder succeeds only on a PENDING or CONFIRMED
\* order; on every other status it fails and changes neither the order nor
\* any stock.
C8_CancelOnlyPendingConfirmed ==
    \A r \in Slots :
        (/\ OnOrder(r, "cancelOrder", TRUE)
         /\ req[r].pre.orders[req[r].arg.orderId].status \notin {"PENDING", "CONFIRMED"})
           => /\ req[r].err # OK
              /\ OrderAsBefore(req[r].pre, req[r].arg.orderId)
              /\ StocksAsBefore(req[r].pre)

\* the transitions of the documented order lifecycle
LifecycleTable ==
    {<<"PENDING", "CONFIRMED">>, <<"CONFIRMED", "SHIPPED">>, <<"SHIPPED", "DELIVERED">>,
     <<"PENDING", "CANCELLED">>, <<"CONFIRMED", "CANCELLED">>,
     <<"CONFIRMED", "RETURNED">>, <<"DELIVERED", "RETURNED">>}

\* C9 (as claimed): an order's status changes only along the lifecycle
\* table, so never out of CANCELLED or RETURNED.
C9_LifecycleOnly ==
    [][\A o \in DOMAIN orders :
          orders'[o].status # orders[o].status
             => <<orders[o].status, orders'[o].status>> \in LifecycleTable]_vars

\* C10 (as claimed): an operation (cancelOrder, or updateOrderStatus with
\* CANCELLED) that moves an order from PENDING or CONFIRMED to CANCELLED
\* has increased the stock of each ordered product by the ordered quantity.
C10_CancellingRestoresStock ==
    \A r \in Slots : \A op \in {"cancelOrder", "updateOrderStatus"} :
        (/\ OnOrder(r, op, TRUE)
         /\ req[r].err = OK
         /\ req[r].pre.orders[req[r].arg.orderId].status \in {"PENDING", "CONFIRMED"}
         /\ orders[req[r].arg.orderId].status = "CANCELLED")
           => \A p \in ProductIds :
                 products[p].stock
                    = req[r].pre.stock[p] + QuantityOf(orders[req[r].arg.orderId].items, p)

\* no order row was added and no stock changed since the request began
NothingOrdered(pre) ==
    /\ DOMAIN orders = DOMAIN pre.orders
    /\ StocksAsBefore(pre)

\* the errors createOrder and checkoutFromCart throw before they persist
PrePersistErrors ==
    {ErrAddress, ErrProductNotFound, ErrProductStock, ErrVariantNotFound, ErrVariantStock,
     ErrValidation, ErrEmptyCart}

NamesForeignVariant(q) ==
    \E i \in DOMAIN q.arg.items :
        /\ q.arg.items[i].variantId \in DOMAIN variants
        /\ variants[q.arg.items[i].variantId].productId # q.arg.items[i].productId

\* C12 (as claimed): createOrder fails, creating no order and changing no
\* stock, when an item's variantId names an existing variant of a product
\* other than the item's productId.
C12_ForeignVariantRefused ==
    \A r \in Slots :
        (Done(r, "createOrder") /\ NamesForeignVariant(req[r]))
           => (req[r].err # OK /\ NothingOrdered(req[r].pre))

\* an item of the request names an existing product that is not ACTIVE
NamesInactiveProduct(q) ==
    \E i \in DOMAIN q.arg.items :
        /\ q.arg.items[i].productId \in DOMAIN products
        /\ products[q.arg.items[i].productId].status # "ACTIVE"

\* C13 (as claimed): createOrder rejects a request naming a product whose
\* status is not ACTIVE; no order is created and no stock is decremented.
C13_InactiveProductRefused ==
    \A r \in Slots :
        (Done(r, "createOrder") /\ NamesInactiveProduct(req[r]))
           => (req[r].err # OK /\ NothingOrdered(req[r].pre))

\* the rows the cart of the request's user held when the request began
CartRowsBefore(q) == {it \in q.pre.cartItems : it.cartId = FindCart(q.userId).id}

\* the unit price addToCart would snapshot from the rows as they are now
LivePrice(productId, variantId) ==
    PriceSnapshot(FindProduct(productId), FindVariant(variantId))

\* C17: updateProduct leaves every cart row (so its priceSnapshot and
\* deliveryChargeSnapshot) unchanged, and each order item checkoutFromCart
\* creates has the unitPrice and deliveryCharge of the snapshots of its cart
\* row, whatever the product's live values are.
C17_CheckoutUsesSnapshots ==
    \A r \in Slots :
        /\ Done(r, "updateProduct") => cartItems = req[r].pre.cartItems
        /\ (Done(r, "checkoutFromCart") /\ req[r].err = OK)
              => LET items == orders[req[r].loc.orderId].items
                     rows == CartRowsBefore(req[r])
                 IN  /\ Len(items) = Cardinality(rows)
                     /\ \A i \in DOMAIN items :
                           \E it \in rows :
                              /\ it.productId = items[i].productId
                              /\ it.variantId = items[i].variantId
                              /\ it.quantity = items[i].quantity
                              /\ it.priceSnapshot = items[i].unitPrice
                              /\ it.deliveryChargeSnapshot = items[i].deliveryCharge

C17_Witness ==
    \E r \in Slots :
        /\ Done(r, "checkoutFromCart")
        /\ req[r].err = OK
        /\ \E i \in DOMAIN orders[req[r].loc.orderId].items :
              LET item == orders[req[r].loc.orderId].items[i]
              IN  item.unitPrice # LivePrice(item.productId, item.variantId)

\* the stock addToCart compares with, as it was when the request began
AvailableBefore(q) ==
    IF q.arg.variantId # Null THEN q.pre.vstock[q.arg.variantId] ELSE q.pre.stock[q.arg.productId]

\* the quantity the user's cart held for the request's (product, variant)
HeldBefore(q) ==
    SumQuantity({it \in CartRowsBefore(q) : /\ it.productId = q.arg.productId
                                            /\ it.variantId = q.arg.variantId})

\* C14: for an active product (and a variant of it), addToCart fails with an
\* insufficient-stock error and leaves the cart rows unchanged whenever the
\* requested quantity, alone or added to the quantity the cart already holds
\* for the pair, exceeds the available stock (the variant's stock when a
\* variant is given, else the product's); after a successful addToCart the
\* row's quantity is at most that stock.
C14_StockLimitsCart ==
    \A r \in Slots :
        (/\ Done(r, "addToCart")
         /\ req[r].err \notin {ErrCartProduct, ErrNotAvailable, ErrCartVariant, ErrVariantMismatch})
           => LET q == req[r]
              IN  /\ (q.arg.quantity + HeldBefore(q) > AvailableBefore(q))
                        => /\ q.err \in {ErrInsufficient, ErrCannotAddMore}
                           /\ cartItems = q.pre.cartItems
                  /\ q.err = OK
                        => \A it \in MatchingItems(FindCart(q.userId).id,
                                                   q.arg.productId, q.arg.variantId) :
                              it.quantity <= AvailableBefore(q)

C14_Witness ==
    \E r \in Slots :
        /\ Done(r, "addToCart")
        /\ req[r].err = ErrCannotAddMore
        /\ req[r].arg.variantId = Null
        /\ HeldBefore(req[r]) = MaxStock
        /\ cartItems = req[r].pre.cartItems

\* the row of the caller's cart an updateCartItem request names
NamedRows(q) == {it \in CartRowsBefore(q) : it.id = q.arg.itemId}

\* the stock updateCartItem compares the quantity with
RowStockBefore(q, row) ==
    IF row.variantId # Null THEN q.pre.vstock[row.variantId] ELSE q.pre.stock[row.productId]

\* what updateCartItem is claimed to leave behind: the row deleted for a
\* quantity <= 0, else the row with the new quantity and its old snapshots
RowsAfterUpdate(q, row) ==
    IF q.arg.quantity <= 0
    THEN q.pre.cartItems \ {row}
    ELSE (q.pre.cartItems \ {row}) \cup {[row EXCEPT !.quantity = q.arg.quantity]}

\* C15 (as claimed): updateCartItem on an item of the caller's cart deletes
\* the row when quantity <= 0 and, when quantity >= 1 and within stock,
\* sets the row's quantity, leaving its snapshots and every other row
\* unchanged.
C15_UpdateCartItemOriginal ==
    \A r \in Slots :
        Done(r, "updateCartItem")
           => \A row \in NamedRows(req[r]) :
                 (req[r].arg.quantity <= 0 \/ req[r].arg.quantity <= RowStockBefore(req[r], row))
                    => cartItems = RowsAfterUpdate(req[r], row)

\* C15 (amended): the same when the row's product is ACTIVE and the
\* quantity is not above the available stock; when the product is not
\* ACTIVE, updateCartItem fails with 'Product is no longer available' for
\* every quantity (0 included) and no row changes.
C15_UpdateCartItem ==
    \A r \in Slots :
        Done(r, "updateCartItem")
           => \A row \in NamedRows(req[r]) :
                 IF products[row.productId].status # "ACTIVE"
                 THEN req[r].err = ErrNoLongerAvailable /\ cartItems = req[r].pre.cartItems
                 ELSE req[r].arg.quantity <= RowStockBefore(req[r], row)
                         => (req[r].err = OK /\ cartItems = RowsAfterUpdate(req[r], row))

C15_Witness ==
    \E r \in Slots :
        /\ Done(r, "updateCartItem")
        /\ req[r].arg.quantity = 0
        /\ req[r].err = OK
        /\ Cardinality(req[r].pre.cartItems) = 2
        /\ Cardinality(cartItems) = 1

\* C16 (as claimed): validateCartForCheckout leaves the Cart rows, the
\* CartItem rows and every product and variant stock as they were, also
\* for a user who has no cart yet.
C16_ValidateMutatesNothing ==
    \A r \in Slots :
        Done(r, "validateCartForCheckout")
           => /\ carts = req[r].pre.carts
              /\ cartItems = req[r].pre.cartItems
              /\ StocksAsBefore(req[r].pre)

\* C16 (amended): validateCartForCheckout leaves the CartItem rows, every
\* stock and the Cart rows of a user who has a cart as they were; for a
\* user who has no cart it creates that user's (empty) Cart row, and
\* nothing else.
C16_ValidateCreatesOnlyCart ==
    \A r \in Slots :
        Done(r, "validateCartForCheckout")
           => /\ cartItems = req[r].pre.cartItems
              /\ StocksAsBefore(req[r].pre)
              /\ IF \E c \in req[r].pre.carts : c.userId = req[r].userId
                 THEN carts = req[r].pre.carts
                 ELSE /\ req[r].pre.carts \subseteq carts
                      /\ {c.userId : c \in carts \ req[r].pre.carts} = {req[r].userId}
                      /\ Cardinality(carts) = Cardinality(req[r].pre.carts) + 1

C16_Witness ==
    \E r \in Slots :
        /\ Done(r, "validateCartForCheckout")
        /\ req[r].userId = "u2"
        /\ req[r].pre.carts # {}
        /\ carts # req[r].pre.carts
        /\ cartItems # {}

\* C18: in every reachable state there is at most one Cart row per user,
\* also when requests of one user that find no cart interleave on first
\* access.
C18_OneCartPerUser ==
    \A u \in UserIds : Cardinality({c \in carts : c.userId = u}) <= 1

\* a request lost the race for the first cart: its prisma.cart.create hit
\* the unique index
C18_Witness ==
    \E r \in Slots :
        /\ req[r].pc = "done"
        /\ req[r].err = ErrUnique
        /\ req[r].loc.cart.id = 0
        /\ Cardinality(carts) = 1

\* the lines (productId, variantId, quantity) of an order
Lines(order) ==
    {Item(order.items[i].productId, order.items[i].variantId, order.items[i].quantity) :
        i \in DOMAIN order.items}

\* a checkoutFromCart has made an order right after a createOrder made one
\* with the same lines
SameLinesBothWays(r) ==
    /\ Done(r, "checkoutFromCart")
    /\ req[r].err = OK
    /\ last.op = "createOrder"
    /\ last.err = OK
    /\ Lines(orders[last.orderId]) = Lines(orders[req[r].loc.orderId])

\* C19 (as claimed): ordering the same lines through the cart and through
\* createOrder has the same result on inventory: what checkoutFromCart
\* takes from every product's and every variant's stock is what createOrder
\* took (the stock updates are relative, so equal results from equal stocks
\* are equal differences).
C19_SameStockEffect ==
    \A r \in Slots :
        SameLinesBothWays(r)
           => /\ \A p \in ProductIds :
                    req[r].pre.stock[p] - products[p].stock = last.stock[p] - req[r].pre.stock[p]
              /\ \A v \in VariantIds :
                    req[r].pre.vstock[v] - variants[v].stock = last.vstock[v] - req[r].pre.vstock[v]

\* C20 (as claimed): for the same lines and unchanged product data the
\* order made by addToCart and checkoutFromCart has the totalAmount of the
\* order made by createOrder.
C20_SameTotalAmount ==
    \A r \in Slots :
        SameLinesBothWays(r)
           => orders[req[r].loc.orderId].totalAmount = orders[last.orderId].totalAmount

\* the unit price of a requested line, from the rows as they are
LineUnitPrice(item) ==
    products[item.productId].price
      + (IF item.variantId # Null THEN variants[item.variantId].priceDiff ELSE 0)

\* C21: createOrder computes, per line, unitPrice = product.price +
\* (variant.priceDiff or 0), itemSubtotal = unitPrice * quantity and discount
\* = product.discount percent of itemSubtotal, and stores subtotalAmount and
\* discountAmount as the sums over the lines; a product with stock 5, price
\* 100, discount 10 and no delivery charge, ordered with quantity 2 and no
\* variant, gives unitPrice 100, subtotalAmount 200, discountAmount 20,
\* totalAmount 180 and stock 3.
C21_CreateOrderTotals ==
    \A r \in Slots :
        (Done(r, "createOrder") /\ req[r].err = OK)
           => LET order == orders[req[r].loc.orderId]
                  items == req[r].arg.items
                  subtotals == [i \in DOMAIN items |-> LineUnitPrice(items[i]) * items[i].quantity]
                  discounts == [i \in DOMAIN items |->
                                   (products[items[i].productId].discount * subtotals[i]) \div 100]
              IN  /\ DOMAIN order.items = DOMAIN items
                  /\ \A i \in DOMAIN items :
                        /\ order.items[i].unitPrice = LineUnitPrice(items[i])
                        /\ order.items[i].quantity = items[i].quantity
                  /\ order.subtotalAmount = SeqSum(subtotals)
                  /\ order.discountAmount = SeqSum(discounts)
                  /\ (/\ Len(items) = 1
                      /\ items[1].variantId = Null
                      /\ items[1].quantity = 2
                      /\ products[items[1].productId].price = 100
                      /\ products[items[1].productId].discount = 10
                      /\ products[items[1].productId].deliveryCharge = 0
                      /\ req[r].pre.stock[items[1].productId] = 5)
                        => /\ order.items[1].unitPrice = 100
                           /\ order.subtotalAmount = 200
                           /\ order.discountAmount = 20
                           /\ order.totalAmount = 180
                           /\ products[items[1].productId].stock = 3

C21_Witness ==
    \E r \in Slots :
        /\ Done(r, "createOrder")
        /\ req[r].err = OK
        /\ req[r].arg.items = <<Item("p2", Null, 2)>>
        /\ products["p2"].price = 100
        /\ req[r].pre.stock["p2"] = 5
        /\ orders[req[r].loc.orderId].totalAmount = 180

\* C22 (as claimed): a createOrder run alone leaves no product's stock below
\* zero: when it succeeds, the quantities of the lines naming a product sum
\* to at most the product's stock before the request.
C22_SoloCreateOrderWithinStock ==
    \A r \in Slots :
        (Done(r, "createOrder") /\ req[r].err = OK)
           => \A p \in ProductIds :
                 /\ QuantityOf(req[r].arg.items, p) <= req[r].pre.stock[p]
                 /\ products[p].stock >= 0

\* C23 (as claimed): a checkoutFromCart run alone leaves no product's and no
\* variant's stock below zero: when it succeeds, every line it ordered,
\* lines with a variant included, has a quantity of at most the product's
\* stock and at most the variant's stock before the request.
C23_SoloCheckoutWithinStock ==
    \A r \in Slots :
        (Done(r, "checkoutFromCart") /\ req[r].err = OK)
           => /\ \A p \in ProductIds : products[p].stock >= 0
              /\ \A v \in VariantIds : variants[v].stock >= 0
              /\ \A i \in DOMAIN orders[req[r].loc.orderId].items :
                    LET item == orders[req[r].loc.orderId].items[i]
                    IN  /\ item.quantity <= req[r].pre.stock[item.productId]
                        /\ item.variantId # Null
                              => item.quantity <= req[r].pre.vstock[item.variantId]

\* C24 (as claimed): when checkoutFromCart orders a line with a variant and
\* the next request cancels the order, the variant's stock is again what it
\* was before the checkout.
C24_CancelRestoresVariantStock ==
    \A r \in Slots :
        (CancelledRightAfterCreation(r) /\ last.op = "checkoutFromCart")
           => \A v \in VariantIds : variants[v].stock = last.vstock[v]

\* C25 (as claimed): over any sequence of cancelOrder and updateOrderStatus
\* calls by the owner, what is added back to a product's stock for an order
\* never exceeds what the order's creation removed: no product's stock
\* rises above the stock it had before the orders were placed.
C25_RestoreAtMostOnce ==
    \A p \in ProductIds : products[p].stock <= InitProducts[p].stock

\* the cart rows a checkoutFromCart request has made an order from, and
\* those of them it has taken from the product's stock
OrderedRows(q) ==
    IF q.op = "checkoutFromCart" /\ q.loc.orderId # 0 THEN Range(q.loc.items) ELSE {}

DecrementedRows(q) ==
    IF q.op = "checkoutFromCart" /\ q.loc.orderId # 0
    THEN {q.loc.items[i] : i \in DOMAIN q.loc.items \ q.loc.dpend}
    ELSE {}

\* C26 (as claimed): when two checkoutFromCart requests of one user
\* interleave on the same cart contents, no cart row is made into an order
\* by both, and no cart row's quantity is taken from stock by both.
C26_RowsOrderedOnce ==
    \A r1, r2 \in Slots :
        r1 # r2 =>
            /\ OrderedRows(req[r1]) \cap OrderedRows(req[r2]) = {}
            /\ DecrementedRows(req[r1]) \cap DecrementedRows(req[r2]) = {}

\* C27 (as claimed): every cart row checkoutFromCart deletes is, with its
\* quantity, one of the rows it made the order from, also when the user's
\* addToCart interleaves with the checkout.
C27_DeletedRowsAreOrdered ==
    [][\A r \in Slots :
          (At(r, "checkoutFromCart", "clear.delete") /\ req'[r].pc = "done")
             => (cartItems \ cartItems') \subseteq Range(req[r].loc.items)]_vars

\* C28 (as claimed): every persisted order has at least one item and every
\* order item has a quantity >= 1, also when the owner's clearCart,
\* removeFromCart or updateCartItem interleaves with checkoutFromCart.
C28_OrdersHaveItems ==
    \A o \in DOMAIN orders :
        /\ Len(orders[o].items) >= 1
        /\ \A i \in DOMAIN orders[o].items : orders[o].items[i].quantity >= 1

\* C29 (as claimed): for one issued email OTP at most MAX_OTP_ATTEMPTS wrong
\* codes are answered with 'Invalid verification code', and no
\* verifyEmailOTP marks the user verified with an OTP whose attempts counter
\* has reached MAX_OTP_ATTEMPTS, over any interleaving of verifyEmailOTP
\* calls.
C29_OtpAttemptsLimited ==
    /\ [](\A id \in OtpRefs : invalidAnswers[id] <= MAX_OTP_ATTEMPTS)
    /\ [][\A r \in Slots :
             (At(r, "verifyEmailOTP", "verify") /\ req'[r].pc = "done")
                => \A o \in emailOTPs :
                      o.id = req[r].loc.emailOTP.id => o.attempts < MAX_OTP_ATTEMPTS]_vars

\* the categories above c: its parent, the parent's parent, and so on
RECURSIVE Above(_, _)
Above(S, n) ==
    IF n = 0 THEN S
    ELSE Above(S \cup {categories[c].parentId : c \in S \cap DOMAIN categories}, n - 1)

Ancestors(c) == Above({categories[c].parentId}, Cardinality(DOMAIN categories)) \ {NoParent}

\* C30 (as claimed): the category parent relation is acyclic in every
\* reachable state: no sequence or interleaving of createCategory and
\* updateCategory calls makes a category its own ancestor.
C30_CategoriesAcyclic ==
    \A c \in DOMAIN categories : c \notin Ancestors(c)

====
